---- MODULE Spec2Model ----
(***************************************************************************)
(* Model of UIBuilderAgentExecutor (src/agent/agent_executor.py): one      *)
(* conversational turn is bridged to status updates on an event queue.     *)
(* Strings are sequences of one-character strings, so that split, strip,   *)
(* lower and the JSON reader act on characters as the Python code does.    *)
(***************************************************************************)
EXTENDS Integers, Sequences, FiniteSets, TLC

(***************************************************************************)
(* Python str operations used by execute                                   *)
(***************************************************************************)

\* str.strip() with no argument removes whitespace (the ASCII part of it).
Whitespace == {" ", "\n", "\t", "\r"}

\* str.lstrip(chars): drop leading characters while they are in the set chars.
RECURSIVE lstrip(_, _)
lstrip(s, chars) ==
    IF s # <<>> /\ Head(s) \in chars THEN lstrip(Tail(s), chars) ELSE s

\* str.rstrip(chars): drop trailing characters while they are in the set chars.
RECURSIVE rstrip(_, _)
rstrip(s, chars) ==
    IF s # <<>> /\ s[Len(s)] \in chars
    THEN rstrip(SubSeq(s, 1, Len(s) - 1), chars)
    ELSE s

\* str.strip()
strip(s) == rstrip(lstrip(s, Whitespace), Whitespace)

\* sub occurs in s starting at index i
MatchAt(s, i, sub) ==
    /\ i >= 1
    /\ i + Len(sub) - 1 <= Len(s)
    /\ SubSeq(s, i, i + Len(sub) - 1) = sub

\* str.find(sub), 1-based; 0 when sub does not occur
find(s, sub) ==
    IF \E i \in 1..(Len(s) + 1) : MatchAt(s, i, sub)
    THEN CHOOSE i \in 1..(Len(s) + 1) :
            /\ MatchAt(s, i, sub)
            /\ \A j \in 1..(i - 1) : ~MatchAt(s, j, sub)
    ELSE 0

\* the Python test `sub in s`
contains(s, sub) == find(s, sub) # 0

\* str.split(sep, 1): the pair <<before, after>> around the first occurrence
\* (used only when sep occurs, as at agent_executor.py:133)
rfind(s, sub) ==
    IF \E i \in 1..(Len(s) + 1) : MatchAt(s, i, sub)
    THEN CHOOSE i \in 1..(Len(s) + 1) :
            /\ MatchAt(s, i, sub)
            /\ \A j \in (i + 1)..(Len(s) + 1) : ~MatchAt(s, j, sub)
    ELSE 0

split1_at_last(s, sep) ==
    LET i == rfind(s, sep)
    IN  <<SubSeq(s, 1, i - 1), SubSeq(s, i + Len(sep), Len(s))>>

split1(s, sep) ==
    LET i == find(s, sep)
    IN  <<SubSeq(s, 1, i - 1), SubSeq(s, i + Len(sep), Len(s))>>

\* str.lower() on the ASCII letters the model's inputs use
LowerOf(c) ==
    CASE c = "A" -> "a" [] c = "B" -> "b" [] c = "C" -> "c" [] c = "D" -> "d"
      [] c = "E" -> "e" [] c = "F" -> "f" [] c = "G" -> "g" [] c = "H" -> "h"
      [] c = "I" -> "i" [] c = "J" -> "j" [] c = "K" -> "k" [] c = "L" -> "l"
      [] c = "M" -> "m" [] c = "N" -> "n" [] c = "O" -> "o" [] c = "P" -> "p"
      [] c = "Q" -> "q" [] c = "R" -> "r" [] c = "S" -> "s" [] c = "T" -> "t"
      [] c = "U" -> "u" [] c = "V" -> "v" [] c = "W" -> "w" [] c = "X" -> "x"
      [] c = "Y" -> "y" [] c = "Z" -> "z" [] OTHER -> c

lower(s) == [i \in 1..Len(s) |-> LowerOf(s[i])]

(***************************************************************************)
(* json.loads on the JSON texts the model's inputs use (no backslash       *)
(* escapes occur in them).  A JSON value is a record [t, v]: t its type.   *)
(***************************************************************************)

JObj(members) == [t |-> "object", v |-> members]   \* members: <<[k, val], ...>>
JList(elems)  == [t |-> "list", v |-> elems]
JStr(chars)   == [t |-> "string", v |-> chars]
JNum(text)    == [t |-> "number", v |-> text]
JLit(name)    == [t |-> "literal", v |-> <<name>>]  \* true, false, null, NaN, ...
JNone         == [t |-> "none", v |-> <<>>]

ParseOk(val, pos) == [ok |-> TRUE, val |-> val, pos |-> pos]
ParseFail         == [ok |-> FALSE, val |-> JNone, pos |-> 0]

JsonWhitespace == {" ", "\t", "\n", "\r"}
Digits         == {"0", "1", "2", "3", "4", "5", "6", "7", "8", "9"}

RECURSIVE SkipWS(_, _)
SkipWS(s, i) ==
    IF i <= Len(s) /\ s[i] \in JsonWhitespace THEN SkipWS(s, i + 1) ELSE i

RECURSIVE SkipDigits(_, _)
SkipDigits(s, i) ==
    IF i <= Len(s) /\ s[i] \in Digits THEN SkipDigits(s, i + 1) ELSE i

\* index of the closing quote of a string whose first character is at i;
\* 0 when the string is unterminated or holds a control character
RECURSIVE ScanString(_, _)
ScanString(s, i) ==
    IF i > Len(s) THEN 0
    ELSE IF s[i] = "\"" THEN i
    ELSE IF s[i] \in {"\n", "\t", "\r"} THEN 0
    ELSE ScanString(s, i + 1)

\* NUMBER_RE = (-?(?:0|[1-9]\d*))(\.\d+)?([eE][-+]?\d+)? matched at i:
\* the index after the match, 0 when there is no match
ScanNumber(s, i) ==
    LET a == IF i <= Len(s) /\ s[i] = "-" THEN i + 1 ELSE i
        b == IF a > Len(s) THEN 0
             ELSE IF s[a] = "0" THEN a + 1
             ELSE IF s[a] \in Digits THEN SkipDigits(s, a)
             ELSE 0
        c == IF b # 0 /\ b + 1 <= Len(s) /\ s[b] = "." /\ s[b + 1] \in Digits
             THEN SkipDigits(s, b + 1)
             ELSE b
        sgn == IF c # 0 /\ c + 1 <= Len(s) /\ s[c + 1] \in {"+", "-"}
               THEN c + 2 ELSE c + 1
        d == IF c # 0 /\ c <= Len(s) /\ s[c] \in {"e", "E"}
                /\ sgn <= Len(s) /\ s[sgn] \in Digits
             THEN SkipDigits(s, sgn)
             ELSE c
    IN  d

\* dict[key] = val: a repeated key keeps its place and takes the last value
DictSet(members, key, val) ==
    IF \E i \in 1..Len(members) : members[i].k = key
    THEN [i \in 1..Len(members) |->
            IF members[i].k = key THEN [k |-> key, val |-> val] ELSE members[i]]
    ELSE Append(members, [k |-> key, val |-> val])

RECURSIVE ParseValue(_, _), ParseMembers(_, _, _), ParseElements(_, _, _)

\* scan_once: the value starting at index i
ParseValue(s, i) ==
    IF i > Len(s) THEN ParseFail
    ELSE IF s[i] = "\"" THEN
        LET e == ScanString(s, i + 1)
        IN  IF e = 0 THEN ParseFail ELSE ParseOk(JStr(SubSeq(s, i + 1, e - 1)), e + 1)
    ELSE IF s[i] = "{" THEN
        LET j == SkipWS(s, i + 1)
        IN  IF j <= Len(s) /\ s[j] = "}" THEN ParseOk(JObj(<<>>), j + 1)
            ELSE ParseMembers(s, j, <<>>)
    ELSE IF s[i] = "[" THEN
        LET j == SkipWS(s, i + 1)
        IN  IF j <= Len(s) /\ s[j] = "]" THEN ParseOk(JList(<<>>), j + 1)
            ELSE ParseElements(s, j, <<>>)
    ELSE IF MatchAt(s, i, <<"n","u","l","l">>) THEN ParseOk(JLit("null"), i + 4)
    ELSE IF MatchAt(s, i, <<"t","r","u","e">>) THEN ParseOk(JLit("true"), i + 4)
    ELSE IF MatchAt(s, i, <<"f","a","l","s","e">>) THEN ParseOk(JLit("false"), i + 5)
    ELSE IF ScanNumber(s, i) # 0 THEN
        ParseOk(JNum(SubSeq(s, i, ScanNumber(s, i) - 1)), ScanNumber(s, i))
    ELSE IF MatchAt(s, i, <<"N","a","N">>) THEN ParseOk(JLit("NaN"), i + 3)
    ELSE IF MatchAt(s, i, <<"I","n","f","i","n","i","t","y">>)
        THEN ParseOk(JLit("Infinity"), i + 8)
    ELSE IF MatchAt(s, i, <<"-","I","n","f","i","n","i","t","y">>)
        THEN ParseOk(JLit("-Infinity"), i + 9)
    ELSE ParseFail

\* JSONObject: the members from the key at index j on
ParseMembers(s, j, acc) ==
    IF j > Len(s) \/ s[j] # "\"" THEN ParseFail
    ELSE
        LET e == ScanString(s, j + 1)
            c == SkipWS(s, e + 1)
            r == ParseValue(s, SkipWS(s, c + 1))
            d == SkipWS(s, r.pos)
            acc2 == DictSet(acc, SubSeq(s, j + 1, e - 1), r.val)
        IN  IF e = 0 THEN ParseFail
            ELSE IF c > Len(s) \/ s[c] # ":" THEN ParseFail
            ELSE IF ~r.ok THEN ParseFail
            ELSE IF d > Len(s) THEN ParseFail
            ELSE IF s[d] = "}" THEN ParseOk(JObj(acc2), d + 1)
            ELSE IF s[d] = "," THEN ParseMembers(s, SkipWS(s, d + 1), acc2)
            ELSE ParseFail

\* JSONArray: the elements from the value at index j on
ParseElements(s, j, acc) ==
    LET r == ParseValue(s, j)
        d == SkipWS(s, r.pos)
        acc2 == Append(acc, r.val)
    IN  IF ~r.ok THEN ParseFail
        ELSE IF d > Len(s) THEN ParseFail
        ELSE IF s[d] = "]" THEN ParseOk(JList(acc2), d + 1)
        ELSE IF s[d] = "," THEN ParseElements(s, SkipWS(s, d + 1), acc2)
        ELSE ParseFail

\* json.loads(s): ok = FALSE stands for json.JSONDecodeError
json_loads(s) ==
    LET r == ParseValue(s, SkipWS(s, 1))
    IN  IF r.ok /\ SkipWS(s, r.pos) = Len(s) + 1 THEN r ELSE ParseFail

(***************************************************************************)
(* The synchronous part of execute: what it computes between two awaits    *)
(***************************************************************************)

\* the delimiter between prose and payload (agent_executor.py:131, 133)
A2UI_SEPARATOR == <<"-","-","-","a","2","u","i","_","J","S","O","N","-","-","-">>

\* the character U+0060 (a TLA+ string cannot hold it), written out in comments
\* as BQ
Backtick == "backtick"

\* lstrip("BQBQBQjson") and rstrip("BQBQBQ") take their argument as a set of
\* characters
FenceOpenChars  == {Backtick, "j", "s", "o", "n"}
FenceCloseChars == {Backtick}

\* json_string.strip().lstrip("BQBQBQjson").rstrip("BQBQBQ").strip()
json_string_cleaned(json_string) ==
    strip(rstrip(lstrip(strip(json_string), FenceOpenChars), FenceCloseChars))

\* Part(root=TextPart(text=...))
TextPart(text) == [kind |-> "text", text |-> text, data |-> JNone]

\* create_a2ui_part(message) = Part(root=DataPart(data=message, ...)); DataPart.data
\* is a dict field, so the constructor raises a validation error (which is not a
\* JSONDecodeError) for every message that is not a JSON object.
DataPartAccepts(message) == message.t = "object"
create_a2ui_part(message) == [kind |-> "data", text |-> <<>>, data |-> message]

\* the messages of the parsed payload, in the order the code visits them
MessagesOf(json_data) ==
    IF json_data.t = "list" THEN json_data.v ELSE <<json_data>>

NoSeparatorParts_untrimmed(content) == <<TextPart(content)>>

\* line 164: no separator, the whole content trimmed
NoSeparatorParts(content) == <<TextPart(strip(content))>>

ProseParts_untrimmed(text_content) ==
    IF text_content # <<>> THEN <<TextPart(text_content)>> ELSE <<>>

\* lines 135-136: the prose segment, when it is not blank
ProseParts(text_content) ==
    IF strip(text_content) # <<>> THEN <<TextPart(strip(text_content))>> ELSE <<>>

FallbackParts_cleaned(json_string) == <<TextPart(json_string_cleaned(json_string))>>

\* lines 160-162: on JSONDecodeError the segment is emitted as it was split off
FallbackParts(json_string) == <<TextPart(json_string)>>

DataParts_first_only(msgs) ==
    IF msgs = <<>> THEN <<>> ELSE <<create_a2ui_part(msgs[1])>>

\* lines 147-158: one DataPart per message
DataParts(msgs) == [i \in 1..Len(msgs) |-> create_a2ui_part(msgs[i])]

FinalPartsOf_parses_blank(content) ==
    IF contains(content, A2UI_SEPARATOR) THEN
        LET text_content == split1(content, A2UI_SEPARATOR)[1]
            json_string  == split1(content, A2UI_SEPARATOR)[2]
            parsed == json_loads(json_string_cleaned(json_string))
            msgs == MessagesOf(parsed.val)
        IN  IF ~parsed.ok
                THEN [raised |-> FALSE,
                      parts |-> ProseParts(text_content) \o FallbackParts(json_string)]
            ELSE IF \E i \in 1..Len(msgs) : ~DataPartAccepts(msgs[i])
                THEN [raised |-> TRUE, parts |-> <<>>]
            ELSE [raised |-> FALSE,
                  parts |-> ProseParts(text_content) \o DataParts(msgs)]
    ELSE [raised |-> FALSE, parts |-> NoSeparatorParts(content)]

\* lines 129-164: final_parts for a terminal content.  raised = TRUE when
\* create_a2ui_part raised; the exception leaves the try block uncaught.
FinalPartsOf(content) ==
    IF contains(content, A2UI_SEPARATOR) THEN
        LET text_content == split1(content, A2UI_SEPARATOR)[1]
            json_string  == split1(content, A2UI_SEPARATOR)[2]
            parsed == json_loads(json_string_cleaned(json_string))
            msgs == MessagesOf(parsed.val)
        IN  IF strip(json_string) = <<>>
                THEN [raised |-> FALSE, parts |-> ProseParts(text_content)]
            ELSE IF ~parsed.ok
                THEN [raised |-> FALSE,
                      parts |-> ProseParts(text_content) \o FallbackParts(json_string)]
            ELSE IF \E i \in 1..Len(msgs) : ~DataPartAccepts(msgs[i])
                THEN [raised |-> TRUE, parts |-> <<>>]
            ELSE [raised |-> FALSE,
                  parts |-> ProseParts(text_content) \o DataParts(msgs)]
    ELSE [raised |-> FALSE, parts |-> NoSeparatorParts(content)]

\* an optional action name: ui_event_part.get("actionName"), None when absent
NoAction        == [present |-> FALSE, name |-> <<>>]
ActionName(n)   == [present |-> TRUE, name |-> n]

STR_submit  == <<"s","u","b","m","i","t">>
STR_confirm == <<"c","o","n","f","i","r","m">>

FinalStateOf_case_sensitive(action) ==
    IF /\ action.present
       /\ \/ contains(action.name, STR_submit)
          \/ contains(action.name, STR_confirm)
    THEN "completed"
    ELSE "input_required"

\* lines 123-127: `action and (...)` is false for None and for the empty string
FinalStateOf(action) ==
    IF /\ action.present
       /\ action.name # <<>>
       /\ \/ contains(lower(action.name), STR_submit)
          \/ contains(lower(action.name), STR_confirm)
    THEN "completed"
    ELSE "input_required"

(***************************************************************************)
(* The inbound request                                                     *)
(***************************************************************************)

\* a userAction dict: optional actionName, optional context (key/value pairs)
UserAction(action, hasContext, context) ==
    [actionName |-> action, hasContext |-> hasContext, context |-> context]
EmptyDict == UserAction(NoAction, FALSE, <<>>)

\* message parts: a TextPart, or a DataPart with or without a "userAction" entry
InTextPart(text)  == [kind |-> "text", text |-> text, hasUserAction |-> FALSE,
                      userAction |-> EmptyDict]
InDataPart(has, ua) == [kind |-> "data", text |-> <<>>, hasUserAction |-> has,
                        userAction |-> ua]

\* the truth value of a dict: it has at least one entry
Truthy(ua) == ua.actionName.present \/ ua.hasContext

\* lines 79-89: the loop keeps the userAction of the last data part that has one
RECURSIVE ScanParts(_, _)
ScanParts(parts, found) ==
    IF parts = <<>> THEN found
    ELSE ScanParts(Tail(parts),
            IF Head(parts).kind = "data" /\ Head(parts).hasUserAction
            THEN [present |-> TRUE, ua |-> Head(parts).userAction]
            ELSE found)

ui_event_part(parts) == ScanParts(parts, [present |-> FALSE, ua |-> EmptyDict])

\* line 91: `if ui_event_part:` is false for None and for an empty dict
HasEvent(parts) == ui_event_part(parts).present /\ Truthy(ui_event_part(parts).ua)

\* line 93: action stays None unless the event branch runs
ActionOf(parts) ==
    IF HasEvent(parts) THEN ui_event_part(parts).ua.actionName ELSE NoAction

\* str(x) inside an f-string: None prints as "None"
FormatAction(action) ==
    IF action.present THEN action.name ELSE <<"N","o","n","e">>

\* ", ".join([f"{k}: {v}" for k, v in ctx.items()])
RECURSIVE context_str(_)
context_str(ctx) ==
    IF ctx = <<>> THEN <<>>
    ELSE ctx[1][1] \o <<":", " ">> \o ctx[1][2]
         \o (IF Len(ctx) > 1 THEN <<",", " ">> \o context_str(Tail(ctx)) ELSE <<>>)

\* context.get_user_input(): the texts of the message's text parts, joined by
\* a newline
RECURSIVE get_user_input(_)
get_user_input(parts) ==
    IF parts = <<>> THEN <<>>
    ELSE IF Head(parts).kind # "text" THEN get_user_input(Tail(parts))
    ELSE Head(parts).text \o
         (IF \E i \in 2..Len(parts) : parts[i].kind = "text"
          THEN <<"\n">> \o get_user_input(Tail(parts))
          ELSE <<>>)

\* lines 91-101: the query; the fixed pieces of the f-string are kept as whole
\* strings, the interpolated pieces as characters
QueryOf(parts) ==
    IF HasEvent(parts)
    THEN <<"User triggered action '">> \o FormatAction(ActionOf(parts))
         \o <<"' with context: ">> \o context_str(ui_event_part(parts).ua.context)
         \o <<". Please respond appropriately with a UI update or confirmation.">>
    ELSE get_user_input(parts)

(***************************************************************************)
(* Bounded inputs                                                          *)
(***************************************************************************)

\* most parts in an inbound message
MaxParts == 1
\* most non-terminal items the backend yields in one turn
MaxItems == 2

Turns == {1, 2}

STR_submit_form    == <<"s","u","b","m","i","t","_","f","o","r","m">>
STR_ConfirmBooking == <<"C","o","n","f","i","r","m","B","o","o","k","i","n","g">>
STR_select_item    == <<"s","e","l","e","c","t","_","i","t","e","m">>
STR_hello          == <<"h","e","l","l","o">>
SampleContext      == << <<<<"i","d">>, <<"4","2">>>> >>

ActionInputs ==
    {ActionName(STR_submit_form), ActionName(STR_ConfirmBooking),
     ActionName(STR_select_item), NoAction}

UserActionInputs ==
    {UserAction(a, TRUE, SampleContext) : a \in ActionInputs} \cup {EmptyDict}

PartInputs ==
    {InTextPart(STR_hello), InDataPart(FALSE, EmptyDict)}
        \cup {InDataPart(TRUE, ua) : ua \in UserActionInputs}

MessageInputs == UNION {[1..n -> PartInputs] : n \in 0..MaxParts}

\* a task: context.current_task, or what new_task(context.message) makes
NoTask      == [present |-> FALSE, id |-> <<"none", 0>>, context_id |-> <<"none", 0>>]
ClientTask  == [present |-> TRUE, id |-> <<"task", 0>>, context_id |-> <<"context", 0>>]
new_task(t) == [present |-> TRUE, id |-> <<"task", t>>, context_id |-> <<"context", t>>]

\* the RequestContext of one execute call
ContextInputs ==
    [parts : MessageInputs, a2ui_requested : BOOLEAN, current_task : {NoTask, ClientTask}]
NoContext == [parts |-> <<>>, a2ui_requested |-> FALSE, current_task |-> NoTask]

STR_Working  == <<"W","o","r","k","i","n","g">>
STR_Thinking == <<"T","h","i","n","k","i","n","g">>
UpdateInputs == {STR_Working, STR_Thinking}

PAYLOAD_empty == <<>>
PAYLOAD_blank == <<" ","\n">>
PAYLOAD_object == <<"{","\"","a","\"",":","1","}">>
PAYLOAD_list2 == <<"[","{","\"","a","\"",":","1","}",",","{","\"","b","\"",":","2","}","]">>
PAYLOAD_empty_list == <<"[","]">>
PAYLOAD_padded == <<" ","{","\"","a","\"",":","1","}","\n">>
PAYLOAD_fenced == <<Backtick,Backtick,Backtick,"j","s","o","n","\n","{","\"","a","\"",":","1","}","\n",Backtick,Backtick,Backtick>>
PAYLOAD_fenced_plain == <<Backtick,Backtick,Backtick,"\n","[","{","\"","a","\"",":","1","}","]","\n",Backtick,Backtick,Backtick>>
PAYLOAD_open_fence == <<Backtick,Backtick,Backtick,"j","s","o","n","{","\"","a","\"",":","1","}">>
PAYLOAD_truncated == <<"{","\"","a","\"",":">>
PAYLOAD_words == <<" ","o","o","p","s"," ">>
PAYLOAD_fenced_words == <<Backtick,Backtick,Backtick,"j","s","o","n","\n","o","o","p","s","\n",Backtick,Backtick,Backtick>>
PAYLOAD_scalar == <<"5">>
PAYLOAD_mixed_list == <<"[","{","\"","a","\"",":","1","}",",","5","]">>
PAYLOAD_null == <<"n","u","l","l">>

PayloadInputs ==
    {PAYLOAD_empty, PAYLOAD_blank, PAYLOAD_object,
     PAYLOAD_list2, PAYLOAD_empty_list, PAYLOAD_padded,
     PAYLOAD_fenced, PAYLOAD_fenced_plain, PAYLOAD_open_fence,
     PAYLOAD_truncated, PAYLOAD_words, PAYLOAD_fenced_words,
     PAYLOAD_scalar, PAYLOAD_mixed_list, PAYLOAD_null}

PROSE_empty  == <<>>
PROSE_blank  == <<" ">>
PROSE_padded == <<" ","H","i","\n">>
PROSE_built  == <<"B","u","i","l","t"," ","a"," ","f","o","r","m",".">>
ProseInputs  == {PROSE_empty, PROSE_blank, PROSE_padded}

\* the scenario of the specification, and a content with two separators
CONTENT_scenario ==
    PROSE_built \o A2UI_SEPARATOR \o
    <<"[","{","\"","b","e","g","i","n","R","e","n","d","e","r","i","n","g","\"",":","{","\"","s","u","r","f","a","c","e","I","d","\"",":","\"","s","1","\"",",","\"","r","o","o","t","\"",":","\"","r","1","\"","}","}","]">>
CONTENT_two_separators ==
    PROSE_padded \o A2UI_SEPARATOR \o PAYLOAD_object \o A2UI_SEPARATOR \o PAYLOAD_object

ContentInputs ==
    ProseInputs \cup {PAYLOAD_object}
        \cup {p \o A2UI_SEPARATOR \o q : p \in ProseInputs, q \in PayloadInputs}
        \cup {CONTENT_scenario, CONTENT_two_separators}

\* an item of agent.stream
WorkingItem(u)  == [is_task_complete |-> FALSE, updates |-> u, content |-> <<>>]
TerminalItem(c) == [is_task_complete |-> TRUE, updates |-> <<>>, content |-> c]

(***************************************************************************)
(* The UI description schema: the data model of a surface.  A2UI_SCHEMA    *)
(* declares the dataModelUpdate message; applyUpdate is the operation of   *)
(* the specification on it.  Messages and models are JSON values as        *)
(* json_loads builds them; a map is an object, its entries in order.       *)
(***************************************************************************)

STR_dataModelUpdate == <<"d","a","t","a","M","o","d","e","l","U","p","d","a","t","e">>
STR_surfaceId    == <<"s","u","r","f","a","c","e","I","d">>
STR_path         == <<"p","a","t","h">>
STR_contents     == <<"c","o","n","t","e","n","t","s">>
STR_key          == <<"k","e","y">>
STR_valueString  == <<"v","a","l","u","e","S","t","r","i","n","g">>
STR_valueNumber  == <<"v","a","l","u","e","N","u","m","b","e","r">>
STR_valueBoolean == <<"v","a","l","u","e","B","o","o","l","e","a","n">>
STR_valueMap     == <<"v","a","l","u","e","M","a","p">>

STR_beginRendering == <<"b","e","g","i","n","R","e","n","d","e","r","i","n","g">>
STR_surfaceUpdate  == <<"s","u","r","f","a","c","e","U","p","d","a","t","e">>
STR_deleteSurface  == <<"d","e","l","e","t","e","S","u","r","f","a","c","e">>
STR_root           == <<"r","o","o","t">>

\* the four action properties of A2UI_SCHEMA
MessageKinds ==
    {STR_beginRendering, STR_surfaceUpdate, STR_dataModelUpdate, STR_deleteSurface}

\* the top-level keys of a JSON object
KeysOf(obj) == {obj.v[i].k : i \in 1..Len(obj.v)}

\* the typed value properties of a data entry
ValueVariants == {STR_valueString, STR_valueNumber, STR_valueBoolean, STR_valueMap}

\* whether a JSON object has a key, and the value of the key (JNone if not)
Has(obj, key) == obj.t = "object" /\ \E i \in 1..Len(obj.v) : obj.v[i].k = key
Get(obj, key) ==
    IF Has(obj, key)
    THEN obj.v[CHOOSE i \in 1..Len(obj.v) : obj.v[i].k = key].val
    ELSE JNone

\* dataModelUpdate.path: "If omitted, or set to '/', the entire data model
\* will be replaced."
IsRootPath(update) ==
    \/ ~Has(update, STR_path)
    \/ Get(update, STR_path) = JStr(<<"/">>)

\* the keys a slash-delimited path names, outermost first
RECURSIVE Segments(_)
Segments(path) ==
    IF path = <<>> THEN <<>>
    ELSE IF Head(path) = "/" THEN Segments(Tail(path))
    ELSE LET stop == IF \E i \in 1..Len(path) : path[i] = "/"
                     THEN CHOOSE i \in 1..Len(path) :
                            path[i] = "/" /\ \A j \in 1..(i - 1) : path[j] # "/"
                     ELSE Len(path) + 1
         IN  <<SubSeq(path, 1, stop - 1)>> \o Segments(SubSeq(path, stop, Len(path)))

\* a map with key set to val: an existing key keeps its place, a new key
\* goes last
PutEntry(members, key, val) ==
    IF \E i \in 1..Len(members) : members[i].k = key
    THEN [i \in 1..Len(members) |->
            IF members[i].k = key THEN [k |-> key, val |-> val] ELSE members[i]]
    ELSE Append(members, [k |-> key, val |-> val])

\* the map an adjacency list of entries stands for, and the value of an entry
RECURSIVE MapOf(_)
RECURSIVE EntryValue(_)
MapOf(entries) ==
    IF entries = <<>> THEN <<>>
    ELSE PutEntry(MapOf(SubSeq(entries, 1, Len(entries) - 1)),
                  Get(entries[Len(entries)], STR_key).v,
                  EntryValue(entries[Len(entries)]))
EntryValue(entry) ==
    IF Has(entry, STR_valueString) THEN Get(entry, STR_valueString)
    ELSE IF Has(entry, STR_valueNumber) THEN Get(entry, STR_valueNumber)
    ELSE IF Has(entry, STR_valueBoolean) THEN Get(entry, STR_valueBoolean)
    ELSE IF Has(entry, STR_valueMap) THEN JObj(MapOf(Get(entry, STR_valueMap).v))
    ELSE JNone

RECURSIVE ReplaceAt_drops_siblings(_, _, _)
ReplaceAt_drops_siblings(node, segments, subtree) ==
    IF segments = <<>> THEN subtree
    ELSE JObj(<<[k |-> Head(segments),
                 val |-> ReplaceAt_drops_siblings(Get(node, Head(segments)),
                                                  Tail(segments), subtree)]>>)

\* the model with the subtree at the path replaced; a key on the way that is
\* missing or holds no map becomes a map
RECURSIVE ReplaceAt(_, _, _)
ReplaceAt(node, segments, subtree) ==
    IF segments = <<>> THEN subtree
    ELSE LET members == IF node.t = "object" THEN node.v ELSE <<>>
         IN  JObj(PutEntry(members, Head(segments),
                           ReplaceAt(Get(node, Head(segments)), Tail(segments), subtree)))

applyUpdate_merges_root(currentModel, message) ==
    LET update  == Get(message, STR_dataModelUpdate)
        subtree == JObj(MapOf(Get(update, STR_contents).v))
    IN  IF IsRootPath(update)
        THEN JObj(MapOf([i \in 1..Len(currentModel.v) |->
                            JObj(<<[k |-> STR_key, val |-> JStr(currentModel.v[i].k)],
                                   [k |-> STR_valueString, val |-> currentModel.v[i].val]>>)]
                        \o Get(update, STR_contents).v))
        ELSE ReplaceAt(currentModel, Segments(Get(update, STR_path).v), subtree)

\* applyUpdate(currentModel, message) -> newModel
applyUpdate(currentModel, message) ==
    LET update  == Get(message, STR_dataModelUpdate)
        subtree == JObj(MapOf(Get(update, STR_contents).v))
    IN  IF IsRootPath(update)
        THEN subtree
        ELSE ReplaceAt(currentModel, Segments(Get(update, STR_path).v), subtree)

\* bounded inputs: entries, contents, paths, updates and models
MaxEntries == 2
MaxUpdates == 2

KEY_a == <<"a">>
KEY_b == <<"b">>
KEY_c == <<"c">>
Entry(key, variant, val) ==
    JObj(<<[k |-> STR_key, val |-> JStr(key)], [k |-> variant, val |-> val]>>)
EntryInputs ==
    {Entry(KEY_a, STR_valueString, JStr(<<"x">>)),
     Entry(KEY_b, STR_valueMap,
           JList(<<Entry(KEY_c, STR_valueBoolean, JLit("true")),
                   Entry(KEY_a, STR_valueNumber, JNum(<<"7">>))>>))}
ContentsInputs == UNION {[1..n -> EntryInputs] : n \in 0..MaxEntries}
PathInputs == {<<"/">>, <<"/","a">>, <<"/","a","/","c">>}
DataModelUpdate(hasPath, path, contents) ==
    JObj(<<[k |-> STR_dataModelUpdate,
            val |-> JObj(<<[k |-> STR_surfaceId, val |-> JStr(<<"s","1">>)]>>
                         \o (IF hasPath THEN <<[k |-> STR_path, val |-> JStr(path)]>>
                             ELSE <<>>)
                         \o <<[k |-> STR_contents, val |-> JList(contents)]>>)]>>)
DataModelUpdateInputs ==
    {DataModelUpdate(TRUE, p, c) : p \in PathInputs, c \in ContentsInputs}
        \cup {DataModelUpdate(FALSE, <<>>, c) : c \in ContentsInputs}

EmptyModel == JObj(<<>>)
ModelInputs ==
    {EmptyModel,
     JObj(<<[k |-> KEY_a, val |-> JStr(<<"x">>)], [k |-> KEY_b, val |-> JNum(<<"1">>)]>>),
     JObj(<<[k |-> KEY_b, val |-> JObj(<<[k |-> KEY_c, val |-> JStr(<<"y">>)],
                                          [k |-> KEY_a, val |-> JNum(<<"2">>)]>>)],
            [k |-> KEY_a, val |-> JStr(<<"x">>)],
            [k |-> KEY_c, val |-> JLit("true")]>>),
     JObj(<<[k |-> KEY_a, val |-> JObj(<<[k |-> KEY_c, val |-> JObj(<<[k |-> KEY_a, val |-> JNum(<<"1">>)]>>)],
                                          [k |-> KEY_b, val |-> JStr(<<"q">>)]>>)],
            [k |-> KEY_c, val |-> JStr(<<"z">>)]>>)}

\* the last application of applyUpdate: the model before it, the update, and
\* how many updates the surface has had
NoApplication == [before |-> EmptyModel, update |-> JNone, n |-> 0]

\* the last call of validate: the message and the report
NoValidation == [message |-> JNone, ok |-> TRUE, violations |-> {}]

(***************************************************************************)
(* The UI description schema: validate.  A2UI_SCHEMA declares the messages *)
(* and the 18 component types; validate is the operation of the            *)
(* specification that checks a message against them.                       *)
(***************************************************************************)

STR_components   == <<"c","o","m","p","o","n","e","n","t","s">>
STR_id           == <<"i","d">>
STR_component    == <<"c","o","m","p","o","n","e","n","t">>
STR_children     == <<"c","h","i","l","d","r","e","n">>
STR_explicitList == <<"e","x","p","l","i","c","i","t","L","i","s","t">>
STR_template     == <<"t","e","m","p","l","a","t","e">>
STR_componentId  == <<"c","o","m","p","o","n","e","n","t","I","d">>
STR_dataBinding  == <<"d","a","t","a","B","i","n","d","i","n","g">>

TYPE_Text           == <<"T","e","x","t">>
TYPE_Image          == <<"I","m","a","g","e">>
TYPE_Icon           == <<"I","c","o","n">>
TYPE_Video          == <<"V","i","d","e","o">>
TYPE_AudioPlayer    == <<"A","u","d","i","o","P","l","a","y","e","r">>
TYPE_Row            == <<"R","o","w">>
TYPE_Column         == <<"C","o","l","u","m","n">>
TYPE_List           == <<"L","i","s","t">>
TYPE_Card           == <<"C","a","r","d">>
TYPE_Tabs           == <<"T","a","b","s">>
TYPE_Divider        == <<"D","i","v","i","d","e","r">>
TYPE_Modal          == <<"M","o","d","a","l">>
TYPE_Button         == <<"B","u","t","t","o","n">>
TYPE_CheckBox       == <<"C","h","e","c","k","B","o","x">>
TYPE_TextField      == <<"T","e","x","t","F","i","e","l","d">>
TYPE_DateTimeInput  == <<"D","a","t","e","T","i","m","e","I","n","p","u","t">>
TYPE_MultipleChoice == <<"M","u","l","t","i","p","l","e","C","h","o","i","c","e">>
TYPE_Slider         == <<"S","l","i","d","e","r">>

\* the properties of `component` in A2UI_SCHEMA, and those with `children`
ComponentTypes ==
    {TYPE_Text, TYPE_Image, TYPE_Icon, TYPE_Video, TYPE_AudioPlayer, TYPE_Row,
     TYPE_Column, TYPE_List, TYPE_Card, TYPE_Tabs, TYPE_Divider, TYPE_Modal,
     TYPE_Button, TYPE_CheckBox, TYPE_TextField, TYPE_DateTimeInput,
     TYPE_MultipleChoice, TYPE_Slider}
ContainerTypes == {TYPE_Row, TYPE_Column, TYPE_List}

\* the elements of a JSON list (none if the value is no list)
ListOf(val) == IF val.t = "list" THEN val.v ELSE <<>>

\* a violation: the rule broken, and where (the index of the component or
\* of the entry, then of the entry inside a valueMap)
Violation(rule, at) == [rule |-> rule, at |-> at]

\* container children: an explicit list or a well-formed template, never
\* both, never neither
ChildrenOk(children) ==
    LET explicit == Has(children, STR_explicitList)
        template == Has(children, STR_template)
    IN  /\ explicit # template
        /\ template => /\ Has(Get(children, STR_template), STR_componentId)
                       /\ Has(Get(children, STR_template), STR_dataBinding)

ComponentViolations_allows_several(c, i) ==
    LET payload == Get(c, STR_component)
    IN  (IF Get(c, STR_id).t # "string" \/ Get(c, STR_id).v = <<>>
         THEN {Violation("component without id", <<i>>)} ELSE {})
        \cup (IF KeysOf(payload) \cap ComponentTypes = {}
              THEN {Violation("not exactly one component type", <<i>>)} ELSE {})
        \cup {Violation("children neither list nor template", <<i>>) :
                k \in {k \in KeysOf(payload) \cap ContainerTypes :
                          ~ChildrenOk(Get(Get(payload, k), STR_children))}}

\* each component has a non-empty id and exactly one component type, and the
\* children of a container are well formed
ComponentViolations(c, i) ==
    LET payload == Get(c, STR_component)
    IN  (IF Get(c, STR_id).t # "string" \/ Get(c, STR_id).v = <<>>
         THEN {Violation("component without id", <<i>>)} ELSE {})
        \cup (IF Cardinality(KeysOf(payload) \cap ComponentTypes) # 1
              THEN {Violation("not exactly one component type", <<i>>)} ELSE {})
        \cup {Violation("children neither list nor template", <<i>>) :
                k \in {k \in KeysOf(payload) \cap ContainerTypes :
                          ~ChildrenOk(Get(Get(payload, k), STR_children))}}

\* surfaceUpdate: at least one component, and each component is checked
SurfaceUpdateViolations(su) ==
    LET components == ListOf(Get(su, STR_components))
    IN  (IF components = <<>> THEN {Violation("no component", <<>>)} ELSE {})
        \cup UNION {ComponentViolations(components[i], i) : i \in 1..Len(components)}

\* an entry has exactly one typed value; the entries of a valueMap likewise
RECURSIVE EntryViolations(_, _)
EntryViolations(entry, at) ==
    (IF Cardinality(KeysOf(entry) \cap ValueVariants) # 1
     THEN {Violation("not exactly one value", at)} ELSE {})
    \cup UNION {EntryViolations(ListOf(Get(entry, STR_valueMap))[j], at \o <<j>>) :
                  j \in 1..Len(ListOf(Get(entry, STR_valueMap)))}

\* dataModelUpdate: at least one entry, and each entry is checked
DataModelUpdateViolations(du) ==
    LET contents == ListOf(Get(du, STR_contents))
    IN  (IF contents = <<>> THEN {Violation("no content", <<>>)} ELSE {})
        \cup UNION {EntryViolations(contents[j], <<j>>) : j \in 1..Len(contents)}

\* every violation of a message
ViolationsOf(message) ==
    (IF Cardinality(KeysOf(message) \cap MessageKinds) # 1
     THEN {Violation("not exactly one message kind", <<>>)} ELSE {})
    \cup (IF Has(message, STR_surfaceUpdate)
          THEN SurfaceUpdateViolations(Get(message, STR_surfaceUpdate)) ELSE {})
    \cup (IF Has(message, STR_dataModelUpdate)
          THEN DataModelUpdateViolations(Get(message, STR_dataModelUpdate)) ELSE {})

validate_first_only(message) ==
    IF ViolationsOf(message) = {}
    THEN [ok |-> TRUE, violations |-> {}]
    ELSE [ok |-> FALSE, violations |-> {CHOOSE v \in ViolationsOf(message) : TRUE}]

\* validate(message) -> ok | list-of-violations
validate(message) ==
    [ok |-> ViolationsOf(message) = {}, violations |-> ViolationsOf(message)]

\* bounded inputs of validate: components, surface updates, entries, messages
MaxComponents  == 2
MaxVariantKeys == 2

\* a key that is no component type (the schema's description names it)
TYPE_Heading == <<"H","e","a","d","i","n","g">>

CHILDREN_list     == JObj(<<[k |-> STR_explicitList, val |-> JList(<<JStr(<<"c","2">>)>>)]>>)
CHILDREN_template ==
    JObj(<<[k |-> STR_template,
            val |-> JObj(<<[k |-> STR_componentId, val |-> JStr(<<"c","2">>)],
                           [k |-> STR_dataBinding, val |-> JStr(<<"/","a">>)]>>)]>>)
CHILDREN_both     == JObj(CHILDREN_list.v \o CHILDREN_template.v)
CHILDREN_neither  == JObj(<<>>)
CHILDREN_bad_template ==
    JObj(<<[k |-> STR_template,
            val |-> JObj(<<[k |-> STR_componentId, val |-> JStr(<<"c","2">>)]>>)]>>)
ChildrenInputs ==
    {CHILDREN_list, CHILDREN_template, CHILDREN_both, CHILDREN_neither,
     CHILDREN_bad_template}

Props(type, children) ==
    IF type \in ContainerTypes THEN JObj(<<[k |-> STR_children, val |-> children]>>)
    ELSE JObj(<<>>)
Payload(keys, children) ==
    JObj([i \in 1..Len(keys) |-> [k |-> keys[i], val |-> Props(keys[i], children)]])
Component(id, payload) ==
    JObj(<<[k |-> STR_id, val |-> JStr(id)], [k |-> STR_component, val |-> payload]>>)
SurfaceUpdate(components) ==
    JObj(<<[k |-> STR_surfaceUpdate,
            val |-> JObj(<<[k |-> STR_surfaceId, val |-> JStr(<<"s","1">>)],
                           [k |-> STR_components, val |-> JList(components)]>>)]>>)

KeySample == {TYPE_Text, TYPE_Row, TYPE_Heading}
KeySeqInputs ==
    {<<type>> : type \in ComponentTypes}
        \cup {keys \in UNION {[1..n -> KeySample] : n \in 0..MaxVariantKeys} :
                \A i, j \in 1..Len(keys) : keys[i] = keys[j] => i = j}
ID_c1 == <<"c","1">>
ComponentInputs ==
    {Component(id, Payload(keys, children)) :
        id \in {<<>>, ID_c1}, keys \in KeySeqInputs, children \in ChildrenInputs}
ComponentSample ==
    {Component(ID_c1, Payload(<<TYPE_Text>>, CHILDREN_list)),
     Component(<<>>, Payload(<<>>, CHILDREN_list)),
     Component(ID_c1, Payload(<<TYPE_Text, TYPE_Row>>, CHILDREN_both)),
     Component(ID_c1, Payload(<<TYPE_Row>>, CHILDREN_template))}
SurfaceUpdateInputs ==
    {SurfaceUpdate(<<c>>) : c \in ComponentInputs}
        \cup {SurfaceUpdate(cs) :
                cs \in UNION {[1..n -> ComponentSample] : n \in 0..MaxComponents}}

ENTRY_no_value   == JObj(<<[k |-> STR_key, val |-> JStr(KEY_a)]>>)
ENTRY_two_values ==
    JObj(<<[k |-> STR_key, val |-> JStr(KEY_a)],
           [k |-> STR_valueString, val |-> JStr(<<"x">>)],
           [k |-> STR_valueNumber, val |-> JNum(<<"7">>)]>>)
ENTRY_bad_map    ==
    Entry(KEY_b, STR_valueMap, JList(<<ENTRY_no_value, ENTRY_two_values>>))
ValidatedEntryInputs ==
    EntryInputs \cup {ENTRY_no_value, ENTRY_two_values, ENTRY_bad_map}
ValidatedUpdateInputs ==
    {DataModelUpdate(TRUE, <<"/">>, c) :
        c \in UNION {[1..n -> ValidatedEntryInputs] : n \in 0..MaxEntries}}

BeginRendering ==
    JObj(<<[k |-> STR_beginRendering,
            val |-> JObj(<<[k |-> STR_surfaceId, val |-> JStr(<<"s","1">>)],
                           [k |-> STR_root, val |-> JStr(<<"r","1">>)]>>)]>>)
DeleteSurface ==
    JObj(<<[k |-> STR_deleteSurface,
            val |-> JObj(<<[k |-> STR_surfaceId, val |-> JStr(<<"s","1">>)]>>)]>>)
TopLevelInputs ==
    {JObj(<<>>), JObj(<<[k |-> KEY_a, val |-> JNum(<<"1">>)]>>),
     BeginRendering, DeleteSurface, JObj(BeginRendering.v \o DeleteSurface.v)}
        \cup {JObj(BeginRendering.v \o SurfaceUpdate(<<c>>).v) : c \in ComponentSample}
        \cup {JObj(DataModelUpdate(TRUE, <<"/">>, <<e>>).v \o DeleteSurface.v) :
                e \in ValidatedEntryInputs}

ValidateInputs == SurfaceUpdateInputs \cup ValidatedUpdateInputs \cup TopLevelInputs

(***************************************************************************)
(* State: per execute call (turn) the position in the coroutine, its       *)
(* locals, the items the backend has yielded to it, and its event queue    *)
(***************************************************************************)
VARIABLES
    pc,           \* idle, enqueue_task, start_stream, stream, update_working,
                  \* update_final, done, raised
    request,      \* the RequestContext passed to execute
    agent,        \* "ui_agent" or "text_agent" ("none" before the choice)
    action,       \* the local `action`
    query,        \* the local `query`
    task,         \* the local `task`
    calls,        \* the calls of agent.stream made so far
    produced,     \* the items the backend has yielded so far
    final_state,  \* the local `final_state`
    final_parts,  \* the local `final_parts`
    queue,        \* the events enqueued on event_queue
    error,        \* the exception that ended execute ("none" if none)
    stream,       \* the backend's generator: unopened, open, failed, ended
    executor,     \* the executor's fields self.ui_agent and self.text_agent
    cancel_raised,\* what the last call of cancel raised to its caller
    data_model,   \* the data model of a surface
    applied,      \* the last dataModelUpdate applied to it
    validated     \* the last message validated, and the report

vars == <<pc, request, agent, action, query, task, calls, produced,
          final_state, final_parts, queue, error, stream, executor, cancel_raised,
          data_model, applied, validated>>

\* the state of the executor and its turns
executor_vars == <<pc, request, agent, action, query, task, calls, produced,
                   final_state, final_parts, queue, error, stream, executor,
                   cancel_raised>>

Last(s) == s[Len(s)]

\* the Task event of line 109 and the TaskStatusUpdateEvent of update_status
TaskEvent(tk) ==
    [kind |-> "task", state |-> "submitted", parts |-> <<>>, final |-> FALSE,
     task_id |-> tk.id, context_id |-> tk.context_id]
StatusEvent(state, parts, final, tk) ==
    [kind |-> "status", state |-> state, parts |-> parts, final |-> final,
     task_id |-> tk.id, context_id |-> tk.context_id]

\* final_parts of every input content, computed once
FinalPartsTable == [c \in ContentInputs |-> FinalPartsOf(c)]

\* lines 44-47: __init__ builds the two agents
NewExecutor == [ui_agent |-> "ui_agent", text_agent |-> "text_agent"]

\* lines 182-185: the exception cancel raises
NothingRaised == [type |-> "none", error |-> "none"]
ServerError(e) == [type |-> "ServerError", error |-> e]
UnsupportedOperationError == "UnsupportedOperationError"

\* the executor after construction, no turn started
InitExecutor ==
    /\ pc = [t \in Turns |-> "idle"]
    /\ request = [t \in Turns |-> NoContext]
    /\ agent = [t \in Turns |-> "none"]
    /\ action = [t \in Turns |-> NoAction]
    /\ query = [t \in Turns |-> <<>>]
    /\ task = [t \in Turns |-> NoTask]
    /\ calls = [t \in Turns |-> <<>>]
    /\ produced = [t \in Turns |-> <<>>]
    /\ final_state = [t \in Turns |-> "none"]
    /\ final_parts = [t \in Turns |-> <<>>]
    /\ queue = [t \in Turns |-> <<>>]
    /\ error = [t \in Turns |-> "none"]
    /\ stream = [t \in Turns |-> "unopened"]
    /\ executor = NewExecutor
    /\ cancel_raised = [t \in Turns |-> NothingRaised]

Init ==
    /\ InitExecutor
    /\ data_model = EmptyModel
    /\ applied = NoApplication
    /\ validated = NoValidation

Execute_always_ui_agent(t, c) ==
    /\ pc[t] = "idle"
    /\ request' = [request EXCEPT ![t] = c]
    /\ agent' = [agent EXCEPT ![t] = executor.ui_agent]
    /\ action' = [action EXCEPT ![t] = ActionOf(c.parts)]
    /\ query' = [query EXCEPT ![t] = QueryOf(c.parts)]
    /\ task' = [task EXCEPT ![t] =
                    IF c.current_task.present THEN c.current_task ELSE new_task(t)]
    /\ pc' = [pc EXCEPT ![t] =
                    IF c.current_task.present THEN "start_stream" ELSE "enqueue_task"]
    /\ UNCHANGED <<calls, produced, final_state, final_parts, queue, error, stream>>
    /\ UNCHANGED <<executor, cancel_raised, data_model, applied, validated>>

\* lines 54-108: everything execute does before its first await
Execute(t, c) ==
    /\ pc[t] = "idle"
    /\ request' = [request EXCEPT ![t] = c]
    /\ agent' = [agent EXCEPT ![t] =
                    IF c.a2ui_requested THEN executor.ui_agent
                                        ELSE executor.text_agent]
    /\ action' = [action EXCEPT ![t] = ActionOf(c.parts)]
    /\ query' = [query EXCEPT ![t] = QueryOf(c.parts)]
    /\ task' = [task EXCEPT ![t] =
                    IF c.current_task.present THEN c.current_task ELSE new_task(t)]
    /\ pc' = [pc EXCEPT ![t] =
                    IF c.current_task.present THEN "start_stream" ELSE "enqueue_task"]
    /\ UNCHANGED <<calls, produced, final_state, final_parts, queue, error, stream>>
    /\ UNCHANGED <<executor, cancel_raised, data_model, applied, validated>>

EnqueueTask_drops_event(t) ==
    /\ pc[t] = "enqueue_task"
    /\ pc' = [pc EXCEPT ![t] = "start_stream"]
    /\ UNCHANGED <<request, agent, action, query, task, calls, produced,
                   final_state, final_parts, queue, error, stream>>
    /\ UNCHANGED <<executor, cancel_raised, data_model, applied, validated>>

\* line 109: await event_queue.enqueue_event(task)
EnqueueTask(t) ==
    /\ pc[t] = "enqueue_task"
    /\ queue' = [queue EXCEPT ![t] = Append(@, TaskEvent(task[t]))]
    /\ pc' = [pc EXCEPT ![t] = "start_stream"]
    /\ UNCHANGED <<request, agent, action, query, task, calls, produced,
                   final_state, final_parts, error, stream>>
    /\ UNCHANGED <<executor, cancel_raised, data_model, applied, validated>>

StartStream_passes_task_id(t) ==
    /\ pc[t] = "start_stream"
    /\ calls' = [calls EXCEPT ![t] =
                    Append(@, [agent |-> agent[t], query |-> query[t],
                               session_id |-> task[t].id])]
    /\ stream' = [stream EXCEPT ![t] = "open"]
    /\ pc' = [pc EXCEPT ![t] = "stream"]
    /\ UNCHANGED <<request, agent, action, query, task, produced,
                   final_state, final_parts, queue, error>>
    /\ UNCHANGED <<executor, cancel_raised, data_model, applied, validated>>

\* lines 110-112: agent.stream(query, task.context_id) is called once
StartStream(t) ==
    /\ pc[t] = "start_stream"
    /\ calls' = [calls EXCEPT ![t] =
                    Append(@, [agent |-> agent[t], query |-> query[t],
                               session_id |-> task[t].context_id])]
    /\ stream' = [stream EXCEPT ![t] = "open"]
    /\ pc' = [pc EXCEPT ![t] = "stream"]
    /\ UNCHANGED <<request, agent, action, query, task, produced,
                   final_state, final_parts, queue, error>>
    /\ UNCHANGED <<executor, cancel_raised, data_model, applied, validated>>

\* lines 112-114: the backend yields a non-terminal item
YieldWorking(t, u) ==
    /\ pc[t] = "stream"
    /\ Len(produced[t]) < MaxItems
    /\ produced' = [produced EXCEPT ![t] = Append(@, WorkingItem(u))]
    /\ pc' = [pc EXCEPT ![t] = "update_working"]
    /\ UNCHANGED <<request, agent, action, query, task, calls,
                   final_state, final_parts, queue, error, stream>>
    /\ UNCHANGED <<executor, cancel_raised, data_model, applied, validated>>

UpdateWorking_prepends(t) ==
    /\ pc[t] = "update_working"
    /\ queue' = [queue EXCEPT ![t] =
                    <<StatusEvent("working", <<TextPart(Last(produced[t]).updates)>>,
                                  FALSE, task[t])>> \o @]
    /\ pc' = [pc EXCEPT ![t] = "stream"]
    /\ UNCHANGED <<request, agent, action, query, task, calls, produced,
                   final_state, final_parts, error, stream>>
    /\ UNCHANGED <<executor, cancel_raised, data_model, applied, validated>>

\* lines 115-119: await updater.update_status(TaskState.working, ...); continue
UpdateWorking(t) ==
    /\ pc[t] = "update_working"
    /\ queue' = [queue EXCEPT ![t] =
                    Append(@, StatusEvent("working",
                                          <<TextPart(Last(produced[t]).updates)>>,
                                          FALSE, task[t]))]
    /\ pc' = [pc EXCEPT ![t] = "stream"]
    /\ UNCHANGED <<request, agent, action, query, task, calls, produced,
                   final_state, final_parts, error, stream>>
    /\ UNCHANGED <<executor, cancel_raised, data_model, applied, validated>>

\* lines 112-173: the backend yields a terminal item; final_state and
\* final_parts are computed, or create_a2ui_part raises
YieldTerminal(t, c) ==
    /\ pc[t] = "stream"
    /\ produced' = [produced EXCEPT ![t] = Append(@, TerminalItem(c))]
    /\ final_state' = [final_state EXCEPT ![t] = FinalStateOf(action[t])]
    /\ IF FinalPartsTable[c].raised
       THEN /\ error' = [error EXCEPT ![t] = "ValidationError"]
            /\ pc' = [pc EXCEPT ![t] = "raised"]
            /\ UNCHANGED final_parts
       ELSE /\ final_parts' = [final_parts EXCEPT ![t] = FinalPartsTable[c].parts]
            /\ pc' = [pc EXCEPT ![t] = "update_final"]
            /\ UNCHANGED error
    /\ UNCHANGED <<request, agent, action, query, task, calls, queue, stream>>
    /\ UNCHANGED <<executor, cancel_raised, data_model, applied, validated>>

UpdateFinal_always_final(t) ==
    /\ pc[t] = "update_final"
    /\ queue' = [queue EXCEPT ![t] =
                    Append(@, StatusEvent(final_state[t], final_parts[t], TRUE, task[t]))]
    /\ pc' = [pc EXCEPT ![t] = "done"]
    /\ UNCHANGED <<request, agent, action, query, task, calls, produced,
                   final_state, final_parts, error, stream>>
    /\ UNCHANGED <<executor, cancel_raised, data_model, applied, validated>>

UpdateFinal_shared_task(t) ==
    /\ pc[t] = "update_final"
    /\ queue' = [queue EXCEPT ![t] =
                    Append(@, StatusEvent(final_state[t], final_parts[t],
                                          final_state[t] = "completed",
                                          IF \E u \in Turns \ {t} : task[u].present
                                          THEN task[CHOOSE u \in Turns \ {t} : task[u].present]
                                          ELSE task[t]))]
    /\ pc' = [pc EXCEPT ![t] = "done"]
    /\ UNCHANGED <<request, agent, action, query, task, calls, produced,
                   final_state, final_parts, error, stream>>
    /\ UNCHANGED <<executor, cancel_raised, data_model, applied, validated>>

\* lines 175-180: await updater.update_status(final_state, ..., final=...); break
UpdateFinal(t) ==
    /\ pc[t] = "update_final"
    /\ queue' = [queue EXCEPT ![t] =
                    Append(@, StatusEvent(final_state[t], final_parts[t],
                                          final_state[t] = "completed", task[t]))]
    /\ pc' = [pc EXCEPT ![t] = "done"]
    /\ UNCHANGED <<request, agent, action, query, task, calls, produced,
                   final_state, final_parts, error, stream>>
    /\ UNCHANGED <<executor, cancel_raised, data_model, applied, validated>>

StreamFails_swallowed(t) ==
    /\ pc[t] = "stream"
    /\ stream' = [stream EXCEPT ![t] = "failed"]
    /\ pc' = [pc EXCEPT ![t] = "done"]
    /\ UNCHANGED <<request, agent, action, query, task, calls, produced,
                   final_state, final_parts, queue, error>>
    /\ UNCHANGED <<executor, cancel_raised, data_model, applied, validated>>

StreamFails_retries(t) ==
    /\ pc[t] = "stream"
    /\ IF Len(calls[t]) < 2
       THEN /\ calls' = [calls EXCEPT ![t] = Append(@, Last(@))]
            /\ UNCHANGED <<stream, error, pc>>
       ELSE /\ stream' = [stream EXCEPT ![t] = "failed"]
            /\ error' = [error EXCEPT ![t] = "BackendError"]
            /\ pc' = [pc EXCEPT ![t] = "raised"]
            /\ UNCHANGED calls
    /\ UNCHANGED <<request, agent, action, query, task, produced,
                   final_state, final_parts, queue>>
    /\ UNCHANGED <<executor, cancel_raised, data_model, applied, validated>>

\* line 112: the backend raises instead of yielding; nothing catches it
StreamFails(t) ==
    /\ pc[t] = "stream"
    /\ stream' = [stream EXCEPT ![t] = "failed"]
    /\ error' = [error EXCEPT ![t] = "BackendError"]
    /\ pc' = [pc EXCEPT ![t] = "raised"]
    /\ UNCHANGED <<request, agent, action, query, task, calls, produced,
                   final_state, final_parts, queue>>
    /\ UNCHANGED <<executor, cancel_raised, data_model, applied, validated>>

StreamEnds_marks_completed(t) ==
    /\ pc[t] = "stream"
    /\ stream' = [stream EXCEPT ![t] = "ended"]
    /\ queue' = [queue EXCEPT ![t] =
                    Append(@, StatusEvent("completed", <<>>, TRUE, task[t]))]
    /\ pc' = [pc EXCEPT ![t] = "done"]
    /\ UNCHANGED <<request, agent, action, query, task, calls, produced,
                   final_state, final_parts, error>>
    /\ UNCHANGED <<executor, cancel_raised, data_model, applied, validated>>

\* line 112: the backend's stream ends; the loop is left
StreamEnds(t) ==
    /\ pc[t] = "stream"
    /\ stream' = [stream EXCEPT ![t] = "ended"]
    /\ pc' = [pc EXCEPT ![t] = "done"]
    /\ UNCHANGED <<request, agent, action, query, task, calls, produced,
                   final_state, final_parts, queue, error>>
    /\ UNCHANGED <<executor, cancel_raised, data_model, applied, validated>>

Cancel_marks_canceled(t) ==
    /\ cancel_raised' = [cancel_raised EXCEPT ![t] = ServerError(UnsupportedOperationError)]
    /\ queue' = [queue EXCEPT ![t] =
                    Append(@, StatusEvent("canceled", <<>>, TRUE, task[t]))]
    /\ UNCHANGED <<pc, request, agent, action, query, task, calls, produced,
                   final_state, final_parts, error, stream, executor>>
    /\ UNCHANGED <<data_model, applied, validated>>

\* lines 182-185: cancel raises ServerError(error=UnsupportedOperationError()),
\* whatever the turn is doing
Cancel(t) ==
    /\ cancel_raised' = [cancel_raised EXCEPT ![t] = ServerError(UnsupportedOperationError)]
    /\ UNCHANGED <<pc, request, agent, action, query, task, calls, produced,
                   final_state, final_parts, queue, error, stream, executor>>
    /\ UNCHANGED <<data_model, applied, validated>>

\* a surface receives a dataModelUpdate: its model becomes applyUpdate's result
ApplyUpdate(u) ==
    /\ applied.n < MaxUpdates
    /\ data_model' = applyUpdate(data_model, u)
    /\ applied' = [before |-> data_model, update |-> u, n |-> applied.n + 1]
    /\ UNCHANGED <<executor_vars, validated>>

\* one execute call, on inputs drawn from the bounded sets
Next ==
    \/ \E c \in ContextInputs : Execute(1, c)
    \/ EnqueueTask(1)
    \/ StartStream(1)
    \/ \E u \in UpdateInputs : YieldWorking(1, u)
    \/ UpdateWorking(1)
    \/ \E c \in ContentInputs : YieldTerminal(1, c)
    \/ UpdateFinal(1)
    \/ StreamFails(1)
    \/ StreamEnds(1)

Spec == Init /\ [][Next]_vars

\* one execute call, and calls of cancel at any point of it
NextCancel ==
    \/ Next
    \/ Cancel(1)

SpecCancel == Init /\ [][NextCancel]_vars

\* the task a client names in context.current_task of turn t
ClientTaskOf(t) ==
    [present |-> TRUE, id |-> <<"client_task", t>>, context_id |-> <<"client_context", t>>]

\* the requests, updates and contents of two concurrent turns
ConcurrentContexts(t) ==
    [parts : {<<InTextPart(STR_hello)>>,
              <<InDataPart(TRUE, UserAction(ActionName(STR_submit_form), TRUE, SampleContext))>>},
     a2ui_requested : BOOLEAN,
     current_task : {NoTask, ClientTaskOf(t)}]
ConcurrentUpdates == {STR_Working}
ConcurrentContents ==
    {PROSE_padded, CONTENT_scenario, PROSE_padded \o A2UI_SEPARATOR \o PAYLOAD_scalar}

\* two execute calls on one executor, interleaved at their awaits
NextConcurrent ==
    \E t \in Turns :
        \/ \E c \in ConcurrentContexts(t) : Execute(t, c)
        \/ EnqueueTask(t)
        \/ StartStream(t)
        \/ \E u \in ConcurrentUpdates : YieldWorking(t, u)
        \/ UpdateWorking(t)
        \/ \E c \in ConcurrentContents : YieldTerminal(t, c)
        \/ UpdateFinal(t)
        \/ StreamFails(t)
        \/ StreamEnds(t)

SpecConcurrent == Init /\ [][NextConcurrent]_vars

\* a message is validated: the report is validate's result
Validate(m) ==
    /\ validated' = [message |-> m, ok |-> validate(m).ok,
                     violations |-> validate(m).violations]
    /\ UNCHANGED <<executor_vars, data_model, applied>>

\* a surface with some data model, and the updates it receives
InitDataModel ==
    /\ InitExecutor
    /\ data_model \in ModelInputs
    /\ applied = NoApplication
    /\ validated = NoValidation

NextDataModel == \E u \in DataModelUpdateInputs : ApplyUpdate(u)

SpecDataModel == InitDataModel /\ [][NextDataModel]_vars

\* messages are validated, one after the other
NextValidate == \E m \in ValidateInputs : Validate(m)

SpecValidate == Init /\ [][NextValidate]_vars

\* two execute calls that go as far as building their query, on messages of
\* several parts
MaxEventParts == 3

EventPartInputs ==
    {InTextPart(STR_hello),
     InDataPart(TRUE, UserAction(ActionName(STR_submit_form), TRUE, SampleContext)),
     InDataPart(TRUE, UserAction(ActionName(STR_select_item), TRUE, SampleContext)),
     InDataPart(TRUE, EmptyDict)}

EventMessageInputs == UNION {[1..n -> EventPartInputs] : n \in 1..MaxEventParts}

EventContextInputs ==
    [parts : EventMessageInputs, a2ui_requested : {TRUE}, current_task : {NoTask}]

NextEvents == \E t \in Turns : \E c \in EventContextInputs : Execute(t, c)

SpecEvents == Init /\ [][NextEvents]_vars

\* one execute call on a backend whose stream is finite and yields a terminal
\* item, with an event sink that accepts every update: each await returns
NextLive ==
    \/ \E c \in ContextInputs : Execute(1, c)
    \/ EnqueueTask(1)
    \/ StartStream(1)
    \/ \E u \in UpdateInputs : YieldWorking(1, u)
    \/ UpdateWorking(1)
    \/ \E c \in ContentInputs : YieldTerminal(1, c)
    \/ UpdateFinal(1)

SpecLive ==
    /\ Init
    /\ [][NextLive]_vars
    /\ WF_vars(EnqueueTask(1))
    /\ WF_vars(StartStream(1))
    /\ WF_vars(UpdateWorking(1))
    /\ WF_vars(\E c \in ContentInputs : YieldTerminal(1, c))
    /\ WF_vars(UpdateFinal(1))

(***************************************************************************)
(* Properties of a turn                                                    *)
(***************************************************************************)

IsWorkingUpdate(e)  == e.kind = "status" /\ e.state = "working"
IsTerminalUpdate(e) == e.kind = "status" /\ e.state # "working"
WorkingUpdates(t)   == SelectSeq(queue[t], IsWorkingUpdate)
TerminalUpdates(t)  == SelectSeq(queue[t], IsTerminalUpdate)

\* the backend has yielded a terminal item to turn t, and its content
TerminalTaken(t)   == produced[t] # <<>> /\ Last(produced[t]).is_task_complete
TerminalContent(t) == Last(produced[t]).content

\* the turn has emitted its terminal update, and the units it carries
TerminalEmitted(t) == queue[t] # <<>> /\ IsTerminalUpdate(Last(queue[t]))
EmittedUnits(t)    == Last(queue[t]).parts

TextUnit(x) == [kind |-> "text", text |-> x, data |-> JNone]
DataUnit(m) == [kind |-> "data", text |-> <<>>, data |-> m]

\* the update texts of the non-terminal items before the first terminal item
RECURSIVE UpdatesBeforeTerminal(_)
UpdatesBeforeTerminal(items) ==
    IF items = <<>> \/ Head(items).is_task_complete THEN <<>>
    ELSE <<Head(items).updates>> \o UpdatesBeforeTerminal(Tail(items))

SpaceChars == {" ", "\n", "\t", "\r"}
IsBlank(s) == \A k \in 1..Len(s) : s[k] \in SpaceChars

\* x is s without its leading and trailing whitespace
IsTrimOf(x, s) ==
    \E i \in 0..Len(s) : \E j \in i..Len(s) :
        /\ x = SubSeq(s, i + 1, j)
        /\ \A k \in 1..i : s[k] \in SpaceChars
        /\ \A k \in (j + 1)..Len(s) : s[k] \in SpaceChars
        /\ x # <<>> => (x[1] \notin SpaceChars /\ x[Len(x)] \notin SpaceChars)

TrimOf(s) ==
    CHOOSE x \in {SubSeq(s, i + 1, j) : i \in 0..Len(s), j \in 0..Len(s)} :
        IsTrimOf(x, s)

HasSeparator(c) == \E i \in 1..Len(c) : MatchAt(c, i, A2UI_SEPARATOR)

\* the segments before and after the first separator
ProseSegment(c)   == split1(c, A2UI_SEPARATOR)[1]
PayloadSegment(c) == split1(c, A2UI_SEPARATOR)[2]

\* the prose unit: present exactly when the prose segment is not blank
ExpectedProse(c) ==
    IF IsBlank(ProseSegment(c)) THEN <<>> ELSE <<TextUnit(TrimOf(ProseSegment(c)))>>

\* what the code hands to the JSON parser, and the parser's answer
ParsedPayload(c) == json_loads(json_string_cleaned(PayloadSegment(c)))

\* the above for every input content, computed once
Facts ==
    [c \in ContentInputs |->
        IF HasSeparator(c)
        THEN [separator |-> TRUE, trimmed |-> <<>>,
              prose |-> ExpectedProse(c), payload |-> PayloadSegment(c),
              stripped |-> json_string_cleaned(PayloadSegment(c)),
              parsed |-> ParsedPayload(c)]
        ELSE [separator |-> FALSE, trimmed |-> TrimOf(c),
              prose |-> <<>>, payload |-> <<>>, stripped |-> <<>>,
              parsed |-> ParseFail]]

\* C1: the working updates on the queue are, one for one and in order, the
\* update texts of the non-terminal items taken so far; at most the item just
\* taken is still to be emitted, and it is emitted before the next is taken.
C1_WorkingUpdatesFollowItems ==
    \A t \in Turns :
        LET sent == WorkingUpdates(t)
            due  == UpdatesBeforeTerminal(produced[t])
        IN  /\ Len(sent) = IF pc[t] = "update_working" THEN Len(due) - 1 ELSE Len(due)
            /\ \A i \in 1..Len(sent) : sent[i].parts = <<TextUnit(due[i])>>

C1_Witness ==
    /\ pc[1] = "done"
    /\ TerminalTaken(1)
    /\ Len(WorkingUpdates(1)) = 2
    /\ WorkingUpdates(1)[1].parts # WorkingUpdates(1)[2].parts

\* C2: a turn whose backend yielded a terminal item ends with exactly one
\* terminal update, which is the last event of the turn.
C2_OneTerminalUpdate ==
    \A t \in Turns :
        (TerminalTaken(t) /\ pc[t] \in {"done", "raised"}) =>
            /\ Len(TerminalUpdates(t)) = 1
            /\ TerminalEmitted(t)

\* C3: a terminal content without the separator gives exactly one unit, a
\* text unit holding the content without leading and trailing whitespace.
C3_NoSeparatorOneTrimmedText ==
    \A t \in Turns :
        (TerminalTaken(t) /\ ~Facts[TerminalContent(t)].separator) =>
            /\ pc[t] \in {"update_final", "done"}
            /\ Len(final_parts[t]) = 1
            /\ final_parts[t][1].kind = "text"
            /\ final_parts[t][1].text = Facts[TerminalContent(t)].trimmed
            /\ IsTrimOf(final_parts[t][1].text, TerminalContent(t))
            /\ pc[t] = "done" => (TerminalEmitted(t) /\ EmittedUnits(t) = final_parts[t])

C3_Witness ==
    /\ pc[1] = "done"
    /\ TerminalTaken(1)
    /\ TerminalContent(1) = PROSE_padded
    /\ EmittedUnits(1) = <<TextUnit(<<"H", "i">>)>>

\* C4 as stated: with the separator and a payload segment the parser rejects
\* (a blank one included), the units are the prose unit, if any, and one text
\* unit equal to the raw payload segment.
C4_FallbackAlsoWhenBlank ==
    \A t \in Turns :
        (/\ TerminalTaken(t)
         /\ pc[t] = "done"
         /\ Facts[TerminalContent(t)].separator
         /\ ~Facts[TerminalContent(t)].parsed.ok) =>
            EmittedUnits(t) =
                Facts[TerminalContent(t)].prose
                    \o <<TextUnit(Facts[TerminalContent(t)].payload)>>

\* C4 amended: with the separator and a payload segment that is not blank and
\* that the parser rejects after fence stripping, the turn does not raise and
\* the units are the prose unit, if and only if the prose segment is not blank,
\* and then one text unit equal to the raw payload segment; nothing else.
C4_FallbackWhenNotBlank ==
    \A t \in Turns :
        (/\ TerminalTaken(t)
         /\ Facts[TerminalContent(t)].separator
         /\ ~IsBlank(Facts[TerminalContent(t)].payload)
         /\ ~Facts[TerminalContent(t)].parsed.ok) =>
            /\ pc[t] \in {"update_final", "done"}
            /\ pc[t] = "done" =>
                /\ TerminalEmitted(t)
                /\ EmittedUnits(t) =
                      Facts[TerminalContent(t)].prose
                          \o <<TextUnit(Facts[TerminalContent(t)].payload)>>

C4_Witness ==
    /\ pc[1] = "done"
    /\ TerminalTaken(1)
    /\ TerminalContent(1) = PROSE_padded \o A2UI_SEPARATOR \o PAYLOAD_truncated
    /\ Len(EmittedUnits(1)) = 2

\* C5 as stated: the fallback text unit holds the fence-stripped payload
\* segment, the string that was handed to the parser.
C5_FallbackIsFenceStripped ==
    \A t \in Turns :
        (/\ TerminalTaken(t)
         /\ pc[t] = "done"
         /\ Facts[TerminalContent(t)].separator
         /\ ~IsBlank(Facts[TerminalContent(t)].payload)
         /\ ~Facts[TerminalContent(t)].parsed.ok) =>
            Last(EmittedUnits(t)) =
                TextUnit(Facts[TerminalContent(t)].stripped)

\* C5 amended: the fallback text unit holds the payload segment exactly as it
\* stood after the split, with its whitespace and its code fence; so it differs
\* from the fence-stripped string whenever the stripping removed something.
C5_FallbackIsRawSegment ==
    \A t \in Turns :
        (/\ TerminalTaken(t)
         /\ pc[t] = "done"
         /\ Facts[TerminalContent(t)].separator
         /\ ~IsBlank(Facts[TerminalContent(t)].payload)
         /\ ~Facts[TerminalContent(t)].parsed.ok) =>
            LET raw  == Facts[TerminalContent(t)].payload
                unit == Last(EmittedUnits(t))
            IN  /\ unit.kind = "text"
                /\ Len(unit.text) = Len(raw)
                /\ \A k \in 1..Len(raw) : unit.text[k] = raw[k]
                /\ Facts[TerminalContent(t)].stripped # raw =>
                        unit.text # Facts[TerminalContent(t)].stripped

C5_Witness ==
    /\ pc[1] = "done"
    /\ TerminalTaken(1)
    /\ TerminalContent(1) = PROSE_blank \o A2UI_SEPARATOR \o PAYLOAD_fenced_words
    /\ EmittedUnits(1) = <<TextUnit(PAYLOAD_fenced_words)>>

\* C6: whatever the terminal content holds, processing it does not raise:
\* the turn goes on to emit its terminal update.
C6_TerminalNeverRaises ==
    \A t \in Turns :
        TerminalTaken(t) => (pc[t] \in {"update_final", "done"} /\ error[t] = "none")

\* the action name of the turn's typed event: that of the last data part with
\* a userAction entry, if that entry names an action
TypedEvents(parts) ==
    {i \in 1..Len(parts) : parts[i].kind = "data" /\ parts[i].hasUserAction}
LastTypedEvent(parts) ==
    parts[CHOOSE i \in TypedEvents(parts) : \A j \in TypedEvents(parts) : j <= i]
HasActionName(parts) ==
    TypedEvents(parts) # {} /\ LastTypedEvent(parts).userAction.actionName.present
ActionNameIn(parts) == LastTypedEvent(parts).userAction.actionName.name

UpperOf(c) ==
    CASE c = "s" -> "S" [] c = "u" -> "U" [] c = "b" -> "B" [] c = "m" -> "M"
      [] c = "i" -> "I" [] c = "t" -> "T" [] c = "c" -> "C" [] c = "o" -> "O"
      [] c = "n" -> "N" [] c = "f" -> "F" [] c = "r" -> "R" [] OTHER -> c

\* word (in lower case) occurs in name, letters compared without case
OccursIgnoringCase(word, name) ==
    \E i \in 1..Len(name) :
        /\ i + Len(word) - 1 <= Len(name)
        /\ \A k \in 1..Len(word) : name[i + k - 1] \in {word[k], UpperOf(word[k])}

NamesSubmitOrConfirm(parts) ==
    /\ HasActionName(parts)
    /\ \/ OccursIgnoringCase(STR_submit, ActionNameIn(parts))
       \/ OccursIgnoringCase(STR_confirm, ActionNameIn(parts))

C8_FinalIffCompleted ==
    \A t \in Turns : \A i \in 1..Len(queue[t]) :
        queue[t][i].kind = "status" =>
            /\ queue[t][i].final = (queue[t][i].state = "completed")
            /\ queue[t][i].state = "working" => ~queue[t][i].final

C8_Witness ==
    /\ pc[1] = "done"
    /\ Len(WorkingUpdates(1)) > 0
    /\ TerminalEmitted(1)
    /\ Last(queue[1]).state = "input_required"
    /\ ~Last(queue[1]).final

\* the objects of a parsed payload: the object itself, or the elements of a list
IsObjects(v) ==
    \/ v.t = "object"
    \/ v.t = "list" /\ \A i \in 1..Len(v.v) : v.v[i].t = "object"
ObjectsOf(v) == IF v.t = "object" THEN <<v>> ELSE v.v

SCENARIO_message ==
    JObj(<<[k |-> STR_beginRendering,
            val |-> JObj(<<[k |-> STR_surfaceId, val |-> JStr(<<"s", "1">>)],
                           [k |-> STR_root, val |-> JStr(<<"r", "1">>)]>>)]>>)

\* C9: with the separator and a payload that parses to an object or to a list
\* of objects, the units are the trimmed prose unit, if and only if the prose
\* is not blank, and then one structured unit per object, in parsed order, each
\* equal to its object; the specification's scenario gives text("Built a
\* form.") and one structured unit.
C9_ProseThenOneUnitPerObject ==
    \A t \in Turns :
        (/\ TerminalTaken(t)
         /\ Facts[TerminalContent(t)].separator
         /\ Facts[TerminalContent(t)].parsed.ok
         /\ IsObjects(Facts[TerminalContent(t)].parsed.val)) =>
            LET objs == ObjectsOf(Facts[TerminalContent(t)].parsed.val)
            IN  /\ pc[t] \in {"update_final", "done"}
                /\ pc[t] = "done" =>
                    /\ TerminalEmitted(t)
                    /\ EmittedUnits(t) =
                          Facts[TerminalContent(t)].prose
                              \o [i \in 1..Len(objs) |-> DataUnit(objs[i])]
                    /\ TerminalContent(t) = CONTENT_scenario =>
                          EmittedUnits(t) =
                              <<TextUnit(PROSE_built), DataUnit(SCENARIO_message)>>

C9_Witness ==
    /\ pc[1] = "done"
    /\ TerminalTaken(1)
    /\ TerminalContent(1) = PROSE_padded \o A2UI_SEPARATOR \o PAYLOAD_list2
    /\ Len(EmittedUnits(1)) = 3
    /\ EmittedUnits(1)[2] # EmittedUnits(1)[3]

\* C10: when the backend fails after k non-terminal items, execute ends with
\* that failure: k working updates were emitted, no terminal update, and the
\* failure was not turned into an event.
C10_BackendFailurePropagates ==
    \A t \in Turns :
        stream[t] = "failed" =>
            /\ pc[t] = "raised"
            /\ error[t] = "BackendError"
            /\ TerminalUpdates(t) = <<>>
            /\ \A i \in 1..Len(produced[t]) : ~produced[t][i].is_task_complete
            /\ Len(WorkingUpdates(t)) = Len(produced[t])
            /\ \A i \in 1..Len(queue[t]) : queue[t][i].kind = "task" \/ IsWorkingUpdate(queue[t][i])

C10_Witness ==
    /\ stream[1] = "failed"
    /\ pc[1] = "raised"
    /\ Len(produced[1]) = 2
    /\ Len(WorkingUpdates(1)) = 2

(***************************************************************************)
(* Cancellation                                                            *)
(***************************************************************************)

\* what a turn is and has done, and the executor it runs on
TurnState(t) ==
    <<pc[t], request[t], agent[t], action[t], query[t], task[t], calls[t],
      produced[t], final_state[t], final_parts[t], queue[t], error[t], stream[t]>>

\* a turn is in flight from the call of execute until it returns or raises
InFlight(t) == pc[t] \notin {"idle", "done", "raised"}

\* C11: a call of cancel, in whatever state the turn is (not started, in
\* flight, ended), raises ServerError wrapping UnsupportedOperationError and
\* nothing else: no event is enqueued, and neither the turn nor the executor
\* changes, so that the turn goes on as it would have without the call.  The
\* error is none of the errors that end execute.
C11_CancelOnlySignalsUnsupported ==
    [][\A t \in Turns :
          cancel_raised'[t] # cancel_raised[t] =>
              /\ cancel_raised'[t] = ServerError(UnsupportedOperationError)
              /\ cancel_raised'[t].error \notin {"none", "BackendError", "ValidationError"}
              /\ queue'[t] = queue[t]
              /\ TurnState(t)' = TurnState(t)
              /\ executor' = executor]_vars

\* cancel has raised, and the turn is in flight: it holds a working item of
\* the backend that it has yet to pass on
C11_Witness ==
    /\ cancel_raised[1] = ServerError(UnsupportedOperationError)
    /\ InFlight(1)
    /\ pc[1] = "update_working"
    /\ error[1] = "none"

(***************************************************************************)
(* The query of a turn                                                     *)
(***************************************************************************)

\* the query built from a typed event, and the freeform text of a message
EventQuery(ua) ==
    <<"User triggered action '">> \o FormatAction(ua.actionName)
        \o <<"' with context: ">> \o context_str(ua.context)
        \o <<". Please respond appropriately with a UI update or confirmation.">>
FreeformText(parts) == get_user_input(parts)

\* C12: once execute has built its query: if the message has a data part with
\* a userAction entry, the query is the one built from that event's action
\* name and context, and otherwise it is the freeform text of the message.
C12_TypedEventTakesPrecedence ==
    \A t \in Turns :
        pc[t] # "idle" =>
            IF TypedEvents(request[t].parts) # {}
            THEN query[t] = EventQuery(LastTypedEvent(request[t].parts).userAction)
            ELSE query[t] = FreeformText(request[t].parts)

(***************************************************************************)
(* The backend of a turn                                                   *)
(***************************************************************************)

\* the backend the mode of the request asks for
BackendOfMode(c) == IF c.a2ui_requested THEN "ui_agent" ELSE "text_agent"

\* C13: from the moment execute has chosen, the agent of the turn is the UI
\* agent if the A2UI extension was activated for the request and the text
\* agent if not; the turn calls a backend at most once, that call is made on
\* the chosen agent, and the backend yields items to the turn only after it.
C13_OneBackendByMode ==
    \A t \in Turns :
        /\ pc[t] = "idle" => agent[t] = "none" /\ calls[t] = <<>>
        /\ pc[t] # "idle" => agent[t] = BackendOfMode(request[t])
        /\ Len(calls[t]) <= 1
        /\ \A i \in 1..Len(calls[t]) : calls[t][i].agent = BackendOfMode(request[t])
        /\ produced[t] # <<>> => Len(calls[t]) = 1

\* a turn without the extension has ended after its text agent yielded a
\* working item and the terminal item
C13_Witness ==
    /\ pc[1] = "done"
    /\ ~request[1].a2ui_requested
    /\ Len(calls[1]) = 1
    /\ calls[1][1].agent = "text_agent"
    /\ Len(produced[1]) = 2
    /\ TerminalEmitted(1)

(***************************************************************************)
(* Concurrent turns                                                        *)
(***************************************************************************)

\* what turn t emits when it runs alone, up to the point where it is: a
\* function of its own request, of the items its backend has yielded to it and
\* of its position
SoloTask(t) ==
    IF request[t].current_task.present THEN request[t].current_task ELSE new_task(t)
SoloWorkingItems(t) ==
    LET IsWorking(item) == ~item.is_task_complete
        items == SelectSeq(produced[t], IsWorking)
    IN  IF pc[t] = "update_working" THEN SubSeq(items, 1, Len(items) - 1) ELSE items
SoloEvents(t) ==
    (IF ~request[t].current_task.present /\ pc[t] \notin {"idle", "enqueue_task"}
     THEN <<TaskEvent(SoloTask(t))>> ELSE <<>>)
    \o [i \in 1..Len(SoloWorkingItems(t)) |->
            StatusEvent("working", <<TextPart(SoloWorkingItems(t)[i].updates)>>,
                        FALSE, SoloTask(t))]
    \o (IF pc[t] = "done" /\ TerminalTaken(t)
        THEN LET state == FinalStateOf(ActionOf(request[t].parts))
             IN  <<StatusEvent(state, FinalPartsTable[TerminalContent(t)].parts,
                               state = "completed", SoloTask(t))>>
        ELSE <<>>)

\* C14: with two turns interleaved in any way at their awaits, the events
\* of each turn are at every moment the events that turn emits when it runs
\* alone on the same request and the same backend items; a step of one turn
\* changes nothing of the other turn, and no step changes the executor's
\* fields ui_agent and text_agent.
C14_ConcurrentTurnsIndependent ==
    /\ [](\A t \in Turns : queue[t] = SoloEvents(t))
    /\ [][/\ executor' = executor
          /\ \A t, u \in Turns :
                (t # u /\ TurnState(t)' # TurnState(t)) => TurnState(u)' = TurnState(u)]_vars

\* the two turns are in flight at once, with different conversation ids,
\* and each has emitted events
C14_Witness ==
    /\ pc[1] = "update_working"
    /\ pc[2] = "update_final"
    /\ queue[1] # <<>>
    /\ queue[2] # <<>>
    /\ task[1].context_id # task[2].context_id

(***************************************************************************)
(* Protocol messages                                                       *)
(***************************************************************************)



\* C15: every structured unit of a terminal update is a JSON object with
\* exactly one top-level key, one of beginRendering, surfaceUpdate,
\* dataModelUpdate and deleteSurface.
C15_EmittedUnitsAreProtocolMessages ==
    \A t \in Turns :
        TerminalEmitted(t) =>
            \A i \in 1..Len(EmittedUnits(t)) :
                EmittedUnits(t)[i].kind = "data" =>
                    /\ EmittedUnits(t)[i].data.t = "object"
                    /\ Cardinality(KeysOf(EmittedUnits(t)[i].data)) = 1
                    /\ KeysOf(EmittedUnits(t)[i].data) \subseteq MessageKinds

(***************************************************************************)
(* No retry                                                                *)
(***************************************************************************)

StatusUpdates(t) == SelectSeq(queue[t], LAMBDA e : e.kind = "status")
WorkingItems(t)  == SelectSeq(produced[t], LAMBDA item : ~item.is_task_complete)
TerminalItems(t) == SelectSeq(produced[t], LAMBDA item : item.is_task_complete)

\* C16: the backend's stream is started once per execute call: never before
\* the turn reaches the loop, and exactly once from then on, also after the
\* stream has failed or ended.  No item is taken after the terminal item, no
\* item after a failure, and no item is passed on twice: there are never
\* more status updates than items, and when the turn has returned there is
\* exactly one per item; when it was ended by an exception, one per
\* non-terminal item.
C16_NoRetry ==
    \A t \in Turns :
        /\ Len(calls[t]) = (IF stream[t] = "unopened" THEN 0 ELSE 1)
        /\ Len(TerminalItems(t)) <= 1
        /\ TerminalItems(t) # <<>> => Last(produced[t]).is_task_complete
        /\ Len(StatusUpdates(t)) <= Len(produced[t])
        /\ pc[t] = "done" => Len(StatusUpdates(t)) = Len(produced[t])
        /\ pc[t] = "raised" => Len(StatusUpdates(t)) = Len(WorkingItems(t))
        /\ stream[t] = "failed" => pc[t] = "raised" /\ error[t] = "BackendError"

\* a turn whose payload did not parse has ended: one call of the backend, two
\* items, two status updates
C16_Witness ==
    /\ pc[1] = "done"
    /\ Len(calls[1]) = 1
    /\ Len(produced[1]) = 2
    /\ TerminalTaken(1)
    /\ TerminalContent(1) = PROSE_padded \o A2UI_SEPARATOR \o PAYLOAD_truncated
    /\ Len(StatusUpdates(1)) = 2

(***************************************************************************)
(* The data model of a surface                                             *)
(***************************************************************************)

\* the last update applied, its dataModelUpdate object and its path
LastUpdate     == Get(applied.update, STR_dataModelUpdate)
UpdateApplied  == applied.n > 0
RootApplied    == UpdateApplied /\ IsRootPath(LastUpdate)
NonRootApplied == UpdateApplied /\ ~IsRootPath(LastUpdate)

\* C17: after a dataModelUpdate whose path is absent or "/" has been
\* applied, applying the same update once more gives the same model, and
\* applying it to any other model gives that model too: the result does not
\* depend on the model before.
C17_RootReplacementIdempotent ==
    RootApplied =>
        /\ applyUpdate(data_model, applied.update) = data_model
        /\ \A M \in ModelInputs \cup {applied.before} :
              applyUpdate(M, applied.update) = data_model

\* a root update with path "/" replaced a model that had entries by a
\* different model that has entries
C17_Witness ==
    /\ RootApplied
    /\ Get(LastUpdate, STR_path) = JStr(<<"/">>)
    /\ applied.before # EmptyModel
    /\ data_model # EmptyModel
    /\ data_model # applied.before

\* the node of a model at a path (JNone if there is none)
RECURSIVE NodeAt(_, _)
NodeAt(model, segments) ==
    IF segments = <<>> THEN model
    ELSE NodeAt(Get(model, Head(segments)), Tail(segments))
KeysSeq(node) == [i \in 1..Len(node.v) |-> node.v[i].k]
LastPath == Segments(Get(LastUpdate, STR_path).v)

\* C18: after a dataModelUpdate with a non-root path P has been applied:
\* in every map of the model before that lies on the way to P (the root and
\* the maps at the proper prefixes of P), every key other than the next key
\* of P is still there with the value it had, and those keys are in the
\* order they were in.
C18_SiblingsKept ==
    NonRootApplied =>
        \A d \in 0..(Len(LastPath) - 1) :
            LET before == NodeAt(applied.before, SubSeq(LastPath, 1, d))
                after  == NodeAt(data_model, SubSeq(LastPath, 1, d))
                IsSibling(key) ==
                    /\ key # LastPath[d + 1]
                    /\ \E i \in 1..Len(before.v) : before.v[i].k = key
            IN  before.t = "object" =>
                    /\ after.t = "object"
                    /\ \A i \in 1..Len(before.v) :
                          IsSibling(before.v[i].k) =>
                              /\ Has(after, before.v[i].k)
                              /\ Get(after, before.v[i].k) = before.v[i].val
                    /\ SelectSeq(KeysSeq(after), IsSibling)
                           = SelectSeq(KeysSeq(before), IsSibling)

\* an update at /a/c changed a model in which both a and the map at a have a
\* sibling key
C18_Witness ==
    /\ NonRootApplied
    /\ LastPath = <<KEY_a, KEY_c>>
    /\ Len(applied.before.v) >= 2
    /\ NodeAt(applied.before, <<KEY_a>>).t = "object"
    /\ Len(NodeAt(applied.before, <<KEY_a>>).v) >= 2
    /\ data_model # applied.before

(***************************************************************************)
(* Validation                                                              *)
(***************************************************************************)

Validated           == validated.message # JNone
ValidatedComponents ==
    ListOf(Get(Get(validated.message, STR_surfaceUpdate), STR_components))
ValidatedEntries    ==
    ListOf(Get(Get(validated.message, STR_dataModelUpdate), STR_contents))
VariantKeys(c)      == KeysOf(Get(c, STR_component)) \cap ComponentTypes

\* C19: there are 18 component types.  When a message has been validated,
\* the report holds the violation of the one-type rule for a component
\* exactly if the payload of that component has no key or several keys of
\* those types, and then the message is not accepted; a surface update of one
\* component with an id and a payload of exactly one type is accepted, for
\* each of the 18 types.
C19_ExactlyOneVariantKey ==
    /\ Cardinality(ComponentTypes) = 18
    /\ Validated =>
        /\ \A i \in 1..Len(ValidatedComponents) :
              /\ (Violation("not exactly one component type", <<i>>) \in validated.violations)
                    <=> (Cardinality(VariantKeys(ValidatedComponents[i])) # 1)
              /\ Cardinality(VariantKeys(ValidatedComponents[i])) # 1 => ~validated.ok
        /\ (\E type \in ComponentTypes :
               validated.message
                   = SurfaceUpdate(<<Component(ID_c1, Payload(<<type>>, CHILDREN_list))>>))
              => validated.ok

\* a component with the two types Text and Row was validated and rejected
C19_Witness ==
    /\ validated.message
          = SurfaceUpdate(<<Component(ID_c1, Payload(<<TYPE_Text, TYPE_Row>>, CHILDREN_list))>>)
    /\ ~validated.ok
    /\ validated.violations = {Violation("not exactly one component type", <<1>>)}

\* C20: validate returns a report: accepted exactly if the report lists no
\* violation.  The report lists every violation, not the first only:
\* whatever validate reports for one component of a surface update, for one
\* entry of a data model update, or for one of the message kinds of a
\* message, validated on its own, is in the report on the whole message (at
\* the place of that component or entry), and so is the violation of a
\* message that has not exactly one kind.
C20_EveryViolationListed ==
    Validated =>
        /\ validated.ok <=> validated.violations = {}
        /\ \A i \in 1..Len(ValidatedComponents) :
              \A v \in validate(SurfaceUpdate(<<ValidatedComponents[i]>>)).violations :
                  Violation(v.rule, <<i>>) \in validated.violations
        /\ \A j \in 1..Len(ValidatedEntries) :
              \A v \in validate(DataModelUpdate(TRUE, <<"/">>, <<ValidatedEntries[j]>>)).violations :
                  Violation(v.rule, <<j>> \o Tail(v.at)) \in validated.violations
        /\ \A kind \in KeysOf(validated.message) \cap {STR_surfaceUpdate, STR_dataModelUpdate} :
              \A v \in validate(JObj(<<[k |-> kind, val |-> Get(validated.message, kind)]>>)).violations :
                  v \in validated.violations
        /\ Cardinality(KeysOf(validated.message) \cap MessageKinds) # 1
              => Violation("not exactly one message kind", <<>>) \in validated.violations

\* a surface update of two components, the first without id and without
\* type, the second with two types and with children given both ways, was
\* validated: the report lists the four violations
C20_Witness ==
    /\ validated.message
          = SurfaceUpdate(<<Component(<<>>, Payload(<<>>, CHILDREN_list)),
                            Component(ID_c1, Payload(<<TYPE_Text, TYPE_Row>>, CHILDREN_both))>>)
    /\ ~validated.ok
    /\ validated.violations
          = {Violation("component without id", <<1>>),
             Violation("not exactly one component type", <<1>>),
             Violation("not exactly one component type", <<2>>),
             Violation("children neither list nor template", <<2>>)}

(***************************************************************************)
(* Termination                                                             *)
(***************************************************************************)

\* C21: with a backend whose stream is finite and yields a terminal item
\* and a sink that accepts every update, a turn that has started eventually
\* has emitted its terminal update and execute has returned.
C21_TurnEmitsTerminalAndReturns ==
    (pc[1] # "idle") ~> (pc[1] = "done" /\ TerminalEmitted(1))

(***************************************************************************)
(* Fence stripping                                                         *)
(***************************************************************************)

\* s without the prefix p, or without the suffix p, when it has it
WithoutPrefix(s, p) ==
    IF Len(s) >= Len(p) /\ SubSeq(s, 1, Len(p)) = p
    THEN SubSeq(s, Len(p) + 1, Len(s)) ELSE s
WithoutSuffix(s, p) ==
    IF Len(s) >= Len(p) /\ SubSeq(s, Len(s) - Len(p) + 1, Len(s)) = p
    THEN SubSeq(s, 1, Len(s) - Len(p)) ELSE s

\* the text inside the fence of a payload segment: the segment trimmed, an
\* opening fence (three BQ, with or without the word json) and a closing
\* fence (three BQ) taken off, and trimmed again
FENCE      == <<Backtick, Backtick, Backtick>>
FENCE_json == FENCE \o <<"j","s","o","n">>
Unfenced(segment) ==
    LET t == TrimOf(segment)
        opened == IF WithoutPrefix(t, FENCE_json) # t THEN WithoutPrefix(t, FENCE_json)
                  ELSE WithoutPrefix(t, FENCE)
    IN  TrimOf(WithoutSuffix(opened, FENCE))

\* for every input content with a separator: the text inside the fence, and
\* whether it is valid JSON text
FenceFacts ==
    [c \in ContentInputs |->
        IF HasSeparator(c)
        THEN [text |-> Unfenced(PayloadSegment(c)),
              valid |-> json_loads(Unfenced(PayloadSegment(c))).ok]
        ELSE [text |-> <<>>, valid |-> FALSE]]

\* C22: when the payload segment of a terminal content is valid JSON text,
\* bare or inside a fence, what the fence stripping hands to the parser is
\* exactly that JSON text.
C22_FenceStrippingKeepsJsonText ==
    \A t \in Turns :
        (TerminalTaken(t) /\ FenceFacts[TerminalContent(t)].valid) =>
            Facts[TerminalContent(t)].stripped = FenceFacts[TerminalContent(t)].text

(***************************************************************************)
(* Identifiers                                                             *)
(***************************************************************************)

\* the task of a turn as the request determines it
TaskOfRequest(t) ==
    IF request[t].current_task.present THEN request[t].current_task ELSE new_task(t)

\* C23: in a turn that has started, the backend is called with the context
\* id of the turn's task, and every event of the turn (the task event, every
\* working update, the terminal update) carries the task id and the context id
\* of that task; no event carries an identifier of the other turn's task.
C23_OneIdentifierPerTurn ==
    \A t \in Turns :
        pc[t] # "idle" =>
            /\ task[t] = TaskOfRequest(t)
            /\ \A i \in 1..Len(calls[t]) :
                  calls[t][i].session_id = TaskOfRequest(t).context_id
            /\ \A i \in 1..Len(queue[t]) :
                  /\ queue[t][i].task_id = TaskOfRequest(t).id
                  /\ queue[t][i].context_id = TaskOfRequest(t).context_id
                  /\ \A u \in Turns \ {t} :
                        pc[u] # "idle" =>
                            /\ queue[t][i].task_id # task[u].id
                            /\ queue[t][i].context_id # task[u].context_id

\* turn 1, on a task the client named, has sent a working update and its
\* terminal update while turn 2 was under way on another task
C23_Witness ==
    /\ pc[1] = "done"
    /\ request[1].current_task.present
    /\ Len(WorkingUpdates(1)) >= 1
    /\ TerminalEmitted(1)
    /\ InFlight(2)
    /\ queue[2] # <<>>

(***************************************************************************)
(* The task event                                                          *)
(***************************************************************************)

TaskEvents(t) == SelectSeq(queue[t], LAMBDA e : e.kind = "task")

\* C24: in a turn whose request has no current task, nothing is enqueued
\* and the backend is not called before the new task is enqueued; from then
\* on the task event of the new task is the first event of the turn and the
\* only task event.  In a turn whose request has a current task, no task
\* event is ever enqueued and the task of the turn is that task.
C24_TaskEventFirst ==
    \A t \in Turns :
        pc[t] # "idle" =>
            IF request[t].current_task.present
            THEN /\ TaskEvents(t) = <<>>
                 /\ task[t] = request[t].current_task
            ELSE /\ task[t] = new_task(t)
                 /\ pc[t] = "enqueue_task" => queue[t] = <<>> /\ calls[t] = <<>>
                 /\ pc[t] # "enqueue_task" =>
                        /\ queue[t] # <<>>
                        /\ queue[t][1] = TaskEvent(new_task(t))
                        /\ TaskEvents(t) = <<TaskEvent(new_task(t))>>

\* a turn without current task has ended: the task event, then a working
\* update, then the terminal update
C24_Witness ==
    /\ pc[1] = "done"
    /\ ~request[1].current_task.present
    /\ Len(queue[1]) = 3
    /\ queue[1][1].kind = "task"
    /\ IsWorkingUpdate(queue[1][2])
    /\ IsTerminalUpdate(queue[1][3])

(***************************************************************************)
(* A stream that ends without a terminal item                              *)
(***************************************************************************)

\* the stream of turn t has ended and has yielded no terminal item
EndedWithoutTerminal(t) == stream[t] = "ended"

\* execute has returned normally, has emitted no terminal update and has
\* marked no event final
ReturnedUnfinished(t) ==
    /\ pc[t] = "done"
    /\ error[t] = "none"
    /\ TerminalUpdates(t) = <<>>
    /\ \A i \in 1..Len(queue[t]) : ~queue[t][i].final

\* C25 as stated: when the stream has ended without a terminal item,
\* execute has returned unfinished and the last event of the turn is a
\* working update, or the task event when the stream was empty.
C25_LastEventWorkingOrTask ==
    \A t \in Turns :
        EndedWithoutTerminal(t) =>
            /\ ReturnedUnfinished(t)
            /\ queue[t] # <<>>
            /\ IF produced[t] = <<>>
               THEN Last(queue[t]).kind = "task"
               ELSE IsWorkingUpdate(Last(queue[t]))

\* C25 as amended: when the stream has ended without a terminal item,
\* execute has returned unfinished; there is no event at all when the stream
\* was empty and the request had a current task, and otherwise the last event
\* is the working update of the last item, or the task event when the stream
\* was empty.
C25_LastEventWorkingTaskOrNone ==
    \A t \in Turns :
        EndedWithoutTerminal(t) =>
            /\ ReturnedUnfinished(t)
            /\ \A i \in 1..Len(produced[t]) : ~produced[t][i].is_task_complete
            /\ (queue[t] = <<>>) <=>
                  (produced[t] = <<>> /\ request[t].current_task.present)
            /\ queue[t] # <<>> =>
                  IF produced[t] = <<>>
                  THEN Last(queue[t]) = TaskEvent(task[t])
                  ELSE /\ IsWorkingUpdate(Last(queue[t]))
                       /\ Last(queue[t]).parts = <<TextUnit(Last(produced[t]).updates)>>

\* the stream ended after two working items: the last event is the working
\* update of the second
C25_Witness ==
    /\ EndedWithoutTerminal(1)
    /\ Len(produced[1]) = 2
    /\ pc[1] = "done"
    /\ IsWorkingUpdate(Last(queue[1]))

(***************************************************************************)
(* A payload with nothing in it                                            *)
(***************************************************************************)

\* the content has the separator, and its payload segment is blank or parses
\* to the empty list
EmptyPayload(c) ==
    /\ Facts[c].separator
    /\ \/ IsBlank(Facts[c].payload)
       \/ /\ Facts[c].parsed.ok
          /\ Facts[c].parsed.val.t = "list"
          /\ Facts[c].parsed.val.v = <<>>

\* C26: when the backend has yielded a terminal content with a blank payload
\* segment or one that parses to the empty list, execute does not raise, and
\* once it has ended the terminal update is emitted; its units are the prose
\* unit alone, when the prose segment is not blank, and no unit when it is.
C26_EmptyPayloadNoUnit ==
    \A t \in Turns :
        (TerminalTaken(t) /\ EmptyPayload(TerminalContent(t))) =>
            /\ pc[t] \in {"update_final", "done"}
            /\ error[t] = "none"
            /\ pc[t] = "done" =>
                  /\ TerminalEmitted(t)
                  /\ EmittedUnits(t) = Facts[TerminalContent(t)].prose
                  /\ \A i \in 1..Len(EmittedUnits(t)) : EmittedUnits(t)[i].kind = "text"
                  /\ Len(EmittedUnits(t)) <= 1
                  /\ IsBlank(ProseSegment(TerminalContent(t))) => EmittedUnits(t) = <<>>

\* a terminal update with an empty list of units was emitted for a content
\* whose prose and payload segments are both blank
C26_Witness ==
    /\ pc[1] = "done"
    /\ TerminalTaken(1)
    /\ TerminalContent(1) = PROSE_blank \o A2UI_SEPARATOR \o PAYLOAD_blank
    /\ TerminalEmitted(1)
    /\ EmittedUnits(1) = <<>>

(***************************************************************************)
(* Several separators in one content                                       *)
(***************************************************************************)

\* where the separator occurs in a content, and the two sides of its first
\* occurrence
SeparatorsAt(c) == {i \in 1..Len(c) : MatchAt(c, i, A2UI_SEPARATOR)}
FirstSeparatorAt(c) ==
    CHOOSE i \in SeparatorsAt(c) : \A j \in SeparatorsAt(c) : i <= j
BeforeFirst(c) == SubSeq(c, 1, FirstSeparatorAt(c) - 1)
AfterFirst(c)  == SubSeq(c, FirstSeparatorAt(c) + Len(A2UI_SEPARATOR), Len(c))

\* for every input content with a separator: the number of separators, the
\* two sides of the first one and the parser's answer for the second side
SplitFacts ==
    [c \in {x \in ContentInputs : SeparatorsAt(x) # {}} |->
        [count  |-> Cardinality(SeparatorsAt(c)),
         before |-> BeforeFirst(c),
         after  |-> AfterFirst(c),
         prose  |-> IF IsBlank(BeforeFirst(c)) THEN <<>>
                    ELSE <<TextUnit(TrimOf(BeforeFirst(c)))>>,
         parsed |-> json_loads(json_string_cleaned(AfterFirst(c)))]]

\* C27: a turn that ended on a terminal content with a separator emitted, as
\* prose, at most the one unit made of what precedes the FIRST separator, and
\* then the outcome of one parse of everything after the first separator: the
\* structured units of the parsed messages, or one text unit holding all of
\* that segment, later separators included, or nothing for a blank segment.
C27_SplitAtFirstSeparatorOnly ==
    \A t \in Turns :
        (/\ TerminalTaken(t)
         /\ pc[t] = "done"
         /\ TerminalEmitted(t)
         /\ TerminalContent(t) \in DOMAIN SplitFacts) =>
            LET f     == SplitFacts[TerminalContent(t)]
                units == EmittedUnits(t)
                rest  == SubSeq(units, Len(f.prose) + 1, Len(units))
            IN  /\ ~HasSeparator(f.before)
                /\ Len(units) >= Len(f.prose)
                /\ SubSeq(units, 1, Len(f.prose)) = f.prose
                /\ IF IsBlank(f.after) THEN rest = <<>>
                   ELSE IF ~f.parsed.ok THEN rest = <<TextUnit(f.after)>>
                   ELSE /\ Len(rest) = Len(MessagesOf(f.parsed.val))
                        /\ \A i \in 1..Len(rest) :
                              rest[i] = DataUnit(MessagesOf(f.parsed.val)[i])

\* a turn ended on the content with two separators: one prose unit, and one
\* text unit that still holds the second separator
C27_Witness ==
    /\ pc[1] = "done"
    /\ TerminalTaken(1)
    /\ TerminalContent(1) = CONTENT_two_separators
    /\ TerminalEmitted(1)
    /\ SplitFacts[CONTENT_two_separators].count = 2
    /\ Len(EmittedUnits(1)) = 2
    /\ EmittedUnits(1)[1] = TextUnit(TrimOf(PROSE_padded))
    /\ EmittedUnits(1)[2] =
          TextUnit(PAYLOAD_object \o A2UI_SEPARATOR \o PAYLOAD_object)

(***************************************************************************)
(* Messages with several typed events                                      *)
(***************************************************************************)

\* the turn has built its query from a message with several typed events
BuiltFromEvents(t) ==
    pc[t] # "idle" /\ Cardinality(TypedEvents(request[t].parts)) >= 2

\* C28: two turns whose messages agree on their last typed event have the same
\* query and the same action name, whatever the earlier typed events and the
\* text parts of the two messages are.
C28_LastTypedEventAloneDecides ==
    \A t, u \in Turns :
        (/\ BuiltFromEvents(t)
         /\ BuiltFromEvents(u)
         /\ LastTypedEvent(request[t].parts) = LastTypedEvent(request[u].parts)) =>
            /\ query[t] = query[u]
            /\ action[t] = action[u]

\* the same, for messages whose last typed event is not the empty dict
C28_NonEmptyLastEventDecides ==
    \A t, u \in Turns :
        (/\ BuiltFromEvents(t)
         /\ BuiltFromEvents(u)
         /\ LastTypedEvent(request[t].parts) = LastTypedEvent(request[u].parts)
         /\ Truthy(LastTypedEvent(request[t].parts).userAction)) =>
            /\ query[t] = query[u]
            /\ action[t] = action[u]
            /\ query[t] = EventQuery(LastTypedEvent(request[t].parts).userAction)
            /\ action[t] = LastTypedEvent(request[t].parts).userAction.actionName

(***************************************************************************)
(* What the final state and the units depend on                            *)
(***************************************************************************)

\* the turn took a terminal item and execute has ended, by return or by raise
EndedOnTerminal(t) == TerminalTaken(t) /\ pc[t] \in {"done", "raised"}

\* the two turns' typed events name the same action, or neither names one
SameActionName(t, u) ==
    /\ HasActionName(request[t].parts) = HasActionName(request[u].parts)
    /\ HasActionName(request[t].parts) =>
          ActionNameIn(request[t].parts) = ActionNameIn(request[u].parts)

\* the state and the final flag of the terminal update the turn emitted, if
\* it emitted one
EndOf(t) ==
    IF TerminalEmitted(t)
    THEN [emitted |-> TRUE, state |-> Last(queue[t]).state, final |-> Last(queue[t]).final]
    ELSE [emitted |-> FALSE, state |-> "none", final |-> FALSE]

\* the units of the terminal update the turn emitted, if it emitted one
UnitsOf(t) ==
    IF TerminalEmitted(t)
    THEN [emitted |-> TRUE, units |-> EmittedUnits(t)]
    ELSE [emitted |-> FALSE, units |-> <<>>]

\* C29: two turns that ended on a terminal item and whose typed events name
\* the same action (or name none) ended alike: with a terminal update of the
\* same state and the same final flag, whatever their modes, working items
\* and terminal contents; and two such turns with the same terminal content
\* emitted the same units, whatever their action names.
C29_StateByActionNameUnitsByContent ==
    \A t, u \in Turns :
        (EndedOnTerminal(t) /\ EndedOnTerminal(u)) =>
            /\ SameActionName(t, u) => EndOf(t) = EndOf(u)
            /\ TerminalContent(t) = TerminalContent(u) => UnitsOf(t) = UnitsOf(u)

\* the same, for the turns that did emit their terminal update
C29_EmittedStateByActionNameUnitsByContent ==
    \A t, u \in Turns :
        (/\ EndedOnTerminal(t) /\ TerminalEmitted(t)
         /\ EndedOnTerminal(u) /\ TerminalEmitted(u)) =>
            /\ SameActionName(t, u) => EndOf(t) = EndOf(u)
            /\ TerminalContent(t) = TerminalContent(u) => UnitsOf(t) = UnitsOf(u)
            /\ EndOf(t).final = (EndOf(t).state = "completed")

====
